---------------------------- MODULE Spec2Model ----------------------------
(***************************************************************************)
(* A model of baseline_simulation.py: the wealth-tax microsimulation       *)
(* pipeline (population synthesis, unit expansion, calibration, bracket    *)
(* tax, joint cap, behavioural erosion) and its orchestrator main().       *)
(*                                                                         *)
(* Every function of the program is an action that applies the function    *)
(* to the arguments held in the state.  Floating-point values are modelled *)
(* as exact rationals; a division by zero yields inf or NaN as numpy does. *)
(***************************************************************************)
EXTENDS Integers, Sequences, FiniteSets, TLC

VARIABLES
    pc,     \* "call" before the function under execution ran and "done" after;
            \* in main, the step that runs next
    args,   \* the scalar arguments of the function under execution
    df,     \* the data frame handed to the function (a sequence of rows)
    ret     \* what the function returned (or the exception it raised)

vars == <<pc, args, df, ret>>

None == [status |-> "none"]

(***************************************************************************)
(* Generic helpers on sequences and integers.                              *)
(***************************************************************************)
RECURSIVE SumSeq(_)
SumSeq(s) == IF s = <<>> THEN 0 ELSE Head(s) + SumSeq(Tail(s))

RECURSIVE MaxSeq(_)
MaxSeq(s) == IF Len(s) = 1 THEN s[1]
             ELSE LET m == MaxSeq(Tail(s)) IN IF s[1] >= m THEN s[1] ELSE m

Abs(x) == IF x < 0 THEN -x ELSE x

RECURSIVE Gcd(_, _)
Gcd(a, b) == IF b = 0 THEN Abs(a) ELSE Gcd(b, a % Abs(b))

\* Python's round() and numpy's .round(): round half to even, n/d with d > 0, n >= 0.
RoundHalfEven(n, d) ==
    LET q == n \div d
        r == n % d
    IN  IF 2 * r < d THEN q
        ELSE IF 2 * r > d THEN q + 1
        ELSE IF q % 2 = 0 THEN q ELSE q + 1

\* All sequences of k naturals that sum to total.
RECURSIVE Compositions(_, _)
Compositions(k, total) ==
    IF k = 0 THEN (IF total = 0 THEN {<<>>} ELSE {})
    ELSE UNION { { <<h>> \o t : t \in Compositions(k - 1, total - h) } : h \in 0..total }

(***************************************************************************)
(* float64 values as extended rationals <<n, d>> in lowest terms, d >= 0.  *)
(* <<1, 0>> is inf, <<-1, 0>> is -inf and <<0, 0>> is NaN: what numpy      *)
(* yields for x / 0 and 0 / 0.                                             *)
(***************************************************************************)
Sign(x) == IF x > 0 THEN 1 ELSE IF x < 0 THEN -1 ELSE 0

RNorm(n, d) ==
    IF d = 0 THEN <<Sign(n), 0>>
    ELSE LET g == Gcd(n, d)
             s == Sign(d)
         IN  <<s * (n \div g), s * (d \div g)>>

R(n) == <<n, 1>>
NaN == <<0, 0>>
Inf == <<1, 0>>

IsNaN(a) == a = NaN
IsFinite(a) == a[2] # 0

RMul(a, b) == RNorm(a[1] * b[1], a[2] * b[2])

RDiv(a, b) == RNorm(a[1] * b[2], a[2] * b[1])

RAdd(a, b) ==
    IF a[2] = 0 /\ b[2] = 0
    THEN (IF a = b THEN a ELSE NaN)
    ELSE LET g == Gcd(a[2], b[2])
         IN  RNorm(a[1] * (b[2] \div g) + b[1] * (a[2] \div g),
                   a[2] * (b[2] \div g))

RNeg(a) == <<-a[1], a[2]>>

RSub(a, b) == RAdd(a, RNeg(b))

\* ==, <, <= on floats: every comparison with NaN is false.
REq(a, b) == ~IsNaN(a) /\ ~IsNaN(b) /\ a = b

RLt(a, b) ==
    /\ ~IsNaN(a) /\ ~IsNaN(b) /\ a # b
    /\ IF a[2] = 0 THEN a[1] < 0
       ELSE IF b[2] = 0 THEN b[1] > 0
       ELSE a[1] * b[2] < b[1] * a[2]

RLe(a, b) == REq(a, b) \/ RLt(a, b)

\* The sum of s[lo..hi], by halves.
RECURSIVE RSumRange(_, _, _)
RSumRange(s, lo, hi) ==
    IF lo > hi THEN R(0)
    ELSE IF lo = hi THEN s[lo]
    ELSE RAdd(RSumRange(s, lo, (lo + hi) \div 2),
              RSumRange(s, (lo + hi) \div 2 + 1, hi))

RSum(s) == RSumRange(s, 1, Len(s))

\* The array with elements f[1] .. f[n].
Array(f, n) == SubSeq(f, 1, n)

(***************************************************************************)
(* generate_scaled_households                                              *)
(***************************************************************************)
\* The regions of the region-share table, in the order the groupby leaves them.
Regions == <<"asturias", "catalonia", "extremadura", "galicia", "madrid", "valencia">>

\* Region shares are multiples of 1/ShareDen; populations range over 0..MaxPopulation.
ShareDen == 10
MaxPopulation == 8

\* avg_household_size = 1.6, in tenths.
avg_household_size_x10 == 16

\* total_households = int(round(simulated_population / avg_household_size))
total_households(simulated_population) ==
    RoundHalfEven(10 * simulated_population, avg_household_size_x10)

\* df["Num_Households"] = (df["Population"] * total_households).round().astype(int)
RoundedCounts(shares, total) ==
    [i \in 1..Len(shares) |-> RoundHalfEven(shares[i] * total, ShareDen)]

\* Series.idxmax(): the first row holding the maximum.
idxmax(s) == CHOOSE i \in 1..Len(s) :
                /\ s[i] = MaxSeq(s)
                /\ \A j \in 1..(i - 1) : s[j] < s[i]

AdjustedCounts(shares, total) ==
    LET counts == RoundedCounts(shares, total)
        diff   == total - SumSeq(counts)
    IN  IF diff # 0
        THEN [counts EXCEPT ![idxmax(counts)] = @ + diff]
        ELSE counts

\* The whole function.  np.repeat raises ValueError when a repeat count is
\* negative; pd.DataFrame raises when the two columns differ in length.  The
\* household sizes are seeded draws of 1 or 2, one per household: only their
\* number (total_households) is kept.
generate_scaled_households(shares, simulated_population) ==
    LET total  == total_households(simulated_population)
        counts == AdjustedCounts(shares, total)
    IN  IF \E i \in 1..Len(counts) : counts[i] < 0
        THEN [status |-> "ValueError", Num_Households |-> <<>>, rows |-> 0]
        ELSE IF SumSeq(counts) # total
        THEN [status |-> "ValueError", Num_Households |-> <<>>, rows |-> 0]
        ELSE [status |-> "ok", Num_Households |-> counts, rows |-> total]

InitHouseholds ==
    /\ pc = "call"
    /\ df \in Compositions(Len(Regions), ShareDen)
    /\ args \in [simulated_population : 0..MaxPopulation]
    /\ ret = None

CallGenerateScaledHouseholds ==
    /\ pc = "call"
    /\ ret' = generate_scaled_households(df, args.simulated_population)
    /\ pc' = "done"
    /\ UNCHANGED <<args, df>>

NextHouseholds == CallGenerateScaledHouseholds

SpecHouseholds == InitHouseholds /\ [][NextHouseholds]_vars

\* C1: for any region shares summing to 1 and any population N, the function
\* produces per-region household counts whose sum is round(N / avg_household_size),
\* and the rounding residual is added to the single region with the largest
\* rounded count, every other region keeping its rounded count.
C1_CountsSumToTotal ==
    pc = "done" =>
        LET total   == total_households(args.simulated_population)
            rounded == RoundedCounts(df, total)
            big     == idxmax(rounded)
        IN  /\ ret.status = "ok"
            /\ SumSeq(ret.Num_Households) = total
            /\ \A i \in 1..Len(df) : i # big => ret.Num_Households[i] = rounded[i]
            /\ ret.Num_Households[big] = rounded[big] + (total - SumSeq(rounded))

(***************************************************************************)
(* reweight_to_match_percentile_shares                                     *)
(***************************************************************************)
\* percentiles = 10: the number of bins, and the length of target_shares.
percentiles == 10

\* target_shares, in hundredths.
target_shares_pct == <<0, 1, 2, 4, 7, 10, 13, 18, 25, 20>>

\* target_shares /= target_shares.sum()
target_shares(k) == RNorm(target_shares_pct[k], SumSeq(target_shares_pct))

\* The input frames: MinUnits..MaxUnits rows whose values and weights follow
\* the arithmetic patterns (a*i + b) mod (MaxValue + 1) and (c*i + d) mod
\* (MaxWeight + 1), preceded by 0..MaxNegative rows of negative value.
MaxUnits == 11
MaxValue == 3
MaxWeight == 2
MaxNegative == 1

MinUnits == percentiles - 1

ReweightFrames ==
    { [i \in 1..(g + n) |->
          IF i <= g THEN [Net_Wealth |-> -1, Weight |-> 1]
          ELSE [Net_Wealth |-> (a * (i - g) + b) % (MaxValue + 1),
                Weight     |-> (c * (i - g) + d) % (MaxWeight + 1)]] :
      g \in 0..MaxNegative, n \in MinUnits..MaxUnits,
      a \in 0..MaxValue, b \in 0..MaxValue, c \in 0..MaxWeight, d \in 0..MaxWeight }

\* df_copy[df_copy[value_col] >= 0].reset_index(drop=True)
RECURSIVE FilterNonNegative(_)
FilterNonNegative(rows) ==
    IF rows = <<>> THEN <<>>
    ELSE IF Head(rows).Net_Wealth >= 0
         THEN <<Head(rows)>> \o FilterNonNegative(Tail(rows))
         ELSE FilterNonNegative(Tail(rows))

\* Series.rank(method="first"): 1-based, ties broken by row order.
RankFirst(rows, i) ==
    1 + Cardinality({ j \in 1..Len(rows) :
                        \/ rows[j].Net_Wealth < rows[i].Net_Wealth
                        \/ rows[j].Net_Wealth = rows[i].Net_Wealth /\ j < i })

\* pd.qcut(rank / n, q, labels=False): the edges are the linearly interpolated
\* quantiles 1/n + k(n-1)/(q n) of the n distinct ranks; bin k (from 0) holds
\* the ranks in (edge k, edge k+1], the first bin also its lowest edge.
qcut(rank, n, q) ==
    IF rank = 1 THEN 0
    ELSE CHOOSE k \in 0..(q - 1) :
            /\ k * (n - 1) < q * (rank - 1)
            /\ q * (rank - 1) <= (k + 1) * (n - 1)

\* df_copy["Wealth_Percentile"]; the bins are numbered from 1 in the model
\* (bin k here is label k - 1).
Wealth_Percentile(rows) ==
    [i \in 1..Len(rows) |-> 1 + qcut(RankFirst(rows, i), Len(rows), percentiles)]

\* groupby("Wealth_Percentile")["Weighted_Wealth"].sum()
Weighted_Wealth_Sum(rows, bins) ==
    [k \in 1..percentiles |->
        SumSeq([i \in 1..Len(rows) |->
                  IF bins[i] = k THEN rows[i].Net_Wealth * rows[i].Weight ELSE 0])]

\* actual_shares /= actual_shares.sum()
actual_shares(sums) ==
    LET total == SumSeq(sums)
    IN  [k \in 1..percentiles |-> RNorm(sums[k], total)]

\* scaling_factors = target_shares / actual_shares.values
scaling_factors(shares) ==
    [k \in 1..percentiles |-> RDiv(target_shares(k), shares[k])]

reweight_to_match_percentile_shares(frame) ==
    LET rows == FilterNonNegative(frame)
        bins == Wealth_Percentile(rows)
        sf   == scaling_factors(actual_shares(Weighted_Wealth_Sum(rows, bins)))
    IN  IF Len(rows) < 2
        THEN [status |-> "ValueError", rows |-> <<>>]   \* qcut: no distinct bin edges
        ELSE IF Cardinality({ bins[i] : i \in 1..Len(rows) }) # Len(target_shares_pct)
        THEN [status |-> "ValueError", rows |-> <<>>]   \* mismatch in number of percentiles
        ELSE [status |-> "ok",
              rows |-> [i \in 1..Len(rows) |->
                          [Net_Wealth        |-> rows[i].Net_Wealth,
                           Weight            |-> rows[i].Weight,
                           Wealth_Percentile |-> bins[i],
                           Scaling_Factor    |-> sf[bins[i]],
                           Adjusted_Weight   |-> RMul(R(rows[i].Weight), sf[bins[i]])]]]

InitReweight ==
    /\ pc = "call"
    /\ df \in ReweightFrames
    /\ args = [value_col |-> "Net_Wealth", weight_col |-> "Weight"]
    /\ ret = None

CallReweight ==
    /\ pc = "call"
    /\ ret' = reweight_to_match_percentile_shares(df)
    /\ pc' = "done"
    /\ UNCHANGED <<args, df>>

NextReweight == CallReweight

SpecReweight == InitReweight /\ [][NextReweight]_vars

\* The bins' weighted values under the adjusted weights.
AdjustedBinValues(rows) ==
    [k \in 1..percentiles |->
        RSum([i \in 1..Len(rows) |->
                IF rows[i].Wealth_Percentile = k
                THEN RMul(R(rows[i].Net_Wealth), rows[i].Adjusted_Weight) ELSE R(0)])]

\* Every bin's share of the total equals its renormalized target share.
SharesMatchTargets(rows) ==
    LET vals  == AdjustedBinValues(rows)
        total == RSum(vals)
    IN  \A k \in 1..percentiles : REq(RDiv(vals[k], total), target_shares(k))

\* C2: after the reweighting, for every bin and any input dataset, the bin's
\* share of the total weighted value under Adjusted_Weight equals the bin's
\* renormalized target share.
C2_SharesMatchTargets ==
    (pc = "done" /\ ret.status = "ok") => SharesMatchTargets(ret.rows)

\* Where every bin holds weighted value the single pass does match every target
\* (the division is then defined).
SharesMatchWhenNoEmptyBin ==
    (pc = "done" /\ ret.status = "ok"
        /\ \A i \in 1..Len(ret.rows) : IsFinite(ret.rows[i].Scaling_Factor)) =>
        SharesMatchTargets(ret.rows)

\* C19: when the total weighted value is 0, or a bin's actual share is 0,
\* the function divides nothing by zero: whenever it returns, every
\* Scaling_Factor and every Adjusted_Weight is a finite number (neither NaN
\* nor infinite).
C19_AdjustedWeightsFinite ==
    (pc = "done" /\ ret.status = "ok") =>
        \A i \in 1..Len(ret.rows) :
            /\ IsFinite(ret.rows[i].Scaling_Factor)
            /\ IsFinite(ret.rows[i].Adjusted_Weight)

(***************************************************************************)
(* Money.  Amounts of the tax engine are exact fixed-point numbers: an      *)
(* integer count of 10^-15 euro, held as Limbs digits in base LimbBase,     *)
(* least significant first; the top digit carries the sign.  Every factor   *)
(* the engine applies (asset ratios, 0.75, 0.70, 0.2, erosion in millionths,*)
(* bracket rates in 10^-5, 0.6) divides 10^15, so no product is rounded.    *)
(***************************************************************************)
Limbs == 12
LimbBase == 10 * 10 * 10

RECURSIVE Carry(_, _, _)
Carry(x, i, c) ==
    IF i = Limbs THEN <<x[i] + c>>
    ELSE <<(x[i] + c) % LimbBase>> \o Carry(x, i + 1, (x[i] + c) \div LimbBase)

Zero == [i \in 1..Limbs |-> 0]

Add(a, b) == Carry([i \in 1..Limbs |-> a[i] + b[i]], 1, 0)

Sub(a, b) == Carry([i \in 1..Limbs |-> a[i] - b[i]], 1, 0)

\* a * m for an integer |m| <= 10^6.
Times(a, m) == Carry([i \in 1..Limbs |-> a[i] * m], 1, 0)

\* floor(a / d) for an integer 0 < d <= 10^6 (exact wherever the engine
\* divides): long division from the top digit down, r the remainder so far.
RECURSIVE DivFrom(_, _, _, _)
DivFrom(a, d, i, r) ==
    IF i = 0 THEN <<>>
    ELSE DivFrom(a, d, i - 1, (r * LimbBase + a[i]) % d)
            \o <<(r * LimbBase + a[i]) \div d>>

Over(a, d) == DivFrom(a, d, Limbs, 0)

IsNeg(a) == a[Limbs] < 0
IsZero(a) == a = Zero
Lt(a, b) == IsNeg(Sub(a, b))
Le(a, b) == ~IsNeg(Sub(b, a))
Gt(a, b) == Lt(b, a)
Min(a, b) == IF Lt(b, a) THEN b ELSE a
Max(a, b) == IF Lt(a, b) THEN b ELSE a

\* A natural n < 2^31, times 10^(3k), as an amount of units.
Shifted(n, k) ==
    [i \in 1..Limbs |->
        IF i = k + 1 THEN n % LimbBase
        ELSE IF i = k + 2 THEN (n \div LimbBase) % LimbBase
        ELSE IF i = k + 3 THEN (n \div (LimbBase * LimbBase)) % LimbBase
        ELSE IF i = k + 4 THEN n \div (LimbBase * LimbBase * LimbBase)
        ELSE 0]

\* Whole euros (10^15 units) and whole cents (10^13 units) as amounts.
Euros(n) == IF n < 0 THEN Sub(Zero, Shifted(0 - n, 5)) ELSE Shifted(n, 5)
Cents(n) == IF n < 0 THEN Sub(Zero, Times(Shifted(0 - n, 4), 10))
            ELSE Times(Shifted(n, 4), 10)

\* x * rate for a rate given in 10^-5 (bracket rates), in hundredths, in millionths.
TimesE5(a, rate) == Over(Times(a, rate), 100000)
TimesPct(a, pct) == Over(Times(a, pct), 100)
TimesPpm(a, ppm) == Over(Times(a, ppm), 1000000)

(***************************************************************************)
(* calculate_ip_tax                                                        *)
(***************************************************************************)
\* float("inf") as a bracket's upper bound.
INF == -1

\* regional_scales: (lower, upper, rate) with the bounds in cents and the rate
\* in 10^-5.
regional_scales_Catalonia ==
    << <<0, 16712945, 210>>, <<16712945, 33425288, 315>>, <<33425288, 66849975, 525>>,
       <<66849975, 133699950, 945>>, <<133699950, 267399900, 1365>>,
       <<267399900, 534799803, 1785>>, <<534799803, 1069599606, 2205>>,
       <<1069599606, 1999999999, 2525>>, <<1999999999, INF, 3480>> >>

regional_scales_Madrid ==
    << <<0, 16712945, 200>>, <<16712945, 33425288, 300>>, <<33425288, 66849975, 500>>,
       <<66849975, 133699950, 900>>, <<133699950, 267399900, 1300>>,
       <<267399900, 534799803, 1700>>, <<534799803, 1069599606, 2100>>,
       <<1069599606, INF, 2500>> >>

regional_scales_Extremadura ==
    << <<0, 16712945, 200>>, <<16712945, 33425288, 300>>, <<33425288, 66849975, 500>>,
       <<66849975, 133699950, 900>>, <<133699950, 267399900, 1300>>,
       <<267399900, 534799803, 1700>>, <<534799803, 1069599606, 2100>>,
       <<1069599606, INF, 3750>> >>

regional_scales_Galicia ==
    << <<0, 16712945, 200>>, <<16712945, 33425288, 300>>, <<33425288, 66849975, 500>>,
       <<66849975, 133699950, 900>>, <<133699950, 267399900, 1300>>,
       <<267399900, 534799803, 1700>>, <<534799803, 1069599606, 2100>>,
       <<1069599606, INF, 3500>> >>

regional_scales_Asturias ==
    << <<0, 16712945, 200>>, <<16712945, 33425288, 300>>, <<33425288, 66849975, 500>>,
       <<66849975, 133699950, 900>>, <<133699950, 267399900, 1300>>,
       <<267399900, 534799803, 1700>>, <<534799803, 1069599606, 2100>>,
       <<1069599606, INF, 2500>> >>

regional_scales_Valencia ==
    << <<0, 16712945, 250>>, <<16712945, 33425288, 350>>, <<33425288, 66849975, 550>>,
       <<66849975, 133699950, 950>>, <<133699950, 267399900, 1350>>,
       <<267399900, 534799803, 1750>>, <<534799803, 1069599606, 2150>>,
       <<1069599606, INF, 3500>> >>

regional_scales_default ==
    << <<0, 16712945, 200>>, <<16712945, 33425288, 300>>, <<33425288, 66849975, 500>>,
       <<66849975, 133699951, 900>>, <<133699951, 267399901, 1300>>,
       <<267399901, 534799803, 1700>>, <<534799803, 1069599606, 2100>>,
       <<1069599606, INF, 2500>> >>

TableKeys == {"Catalonia", "Madrid", "Extremadura", "Galicia", "Asturias", "Valencia", "default"}

\* brackets = regional_scales.get(region, regional_scales["default"])
regional_scales(region) ==
    CASE region = "Catalonia"   -> regional_scales_Catalonia
      [] region = "Madrid"      -> regional_scales_Madrid
      [] region = "Extremadura" -> regional_scales_Extremadura
      [] region = "Galicia"     -> regional_scales_Galicia
      [] region = "Asturias"    -> regional_scales_Asturias
      [] region = "Valencia"    -> regional_scales_Valencia
      [] OTHER                  -> regional_scales_default

\* min(base, upper) - lower
taxable_in_bracket_no_min(base, lower, upper) == Sub(base, Cents(lower))

taxable_in_bracket(base, lower, upper) ==
    IF upper = INF THEN Sub(base, Cents(lower))
    ELSE Sub(Min(base, Cents(upper)), Cents(lower))

\* The loop over the brackets from bracket i on, tax being the tax so far.
RECURSIVE bracket_loop(_, _, _, _)
bracket_loop(base, brackets, i, tax) ==
    IF i > Len(brackets) THEN tax
    ELSE IF Gt(base, Cents(brackets[i][1]))
    THEN bracket_loop(base, brackets, i + 1,
             Add(tax, TimesE5(taxable_in_bracket(base, brackets[i][1], brackets[i][2]),
                              brackets[i][3])))
    ELSE tax

calculate_ip_tax(base, region) == bracket_loop(base, regional_scales(region), 1, Zero)

\* The bases tried: every bracket bound of the table and the amounts up to
\* MaxOffset cents below and above it.
MaxOffset == 2

BracketBases(region) ==
    { regional_scales(region)[i][1] + d :
        i \in 1..Len(regional_scales(region)), d \in (0 - MaxOffset)..MaxOffset }

InitBracket ==
    /\ pc = "call"
    /\ df = <<>>
    /\ \E region \in TableKeys : \E cents \in BracketBases(region) :
          args = [region |-> region, base_cents |-> cents]
    /\ ret = None

CallCalculateIpTax ==
    /\ pc = "call"
    /\ ret' = [status |-> "ok", tax |-> calculate_ip_tax(Cents(args.base_cents), args.region)]
    /\ pc' = "done"
    /\ UNCHANGED <<args, df>>

NextBracket == CallCalculateIpTax

SpecBracket == InitBracket /\ [][NextBracket]_vars

\* C3: for every region table the tax is 0 at base 0, does not decrease when
\* the base grows, and inside a bracket (lower < b <= upper) equals the tax at
\* the bracket's lower bound plus (b - lower) times the bracket's rate; since
\* the brackets are closed above, this makes it continuous at every bound.
C3_BracketTaxPiecewiseLinear ==
    pc = "done" =>
        LET b     == args.base_cents
            table == regional_scales(args.region)
        IN  /\ b <= 0 => IsZero(ret.tax)
            /\ Le(ret.tax, calculate_ip_tax(Cents(b + 1), args.region))
            /\ \A i \in 1..Len(table) :
                  (table[i][1] < b /\ (table[i][2] = INF \/ b <= table[i][2])) =>
                      ret.tax = Add(calculate_ip_tax(Cents(table[i][1]), args.region),
                                    TimesE5(Cents(b - table[i][1]), table[i][3]))
            /\ b > 0 => \E i \in 1..Len(table) :
                  table[i][1] < b /\ (table[i][2] = INF \/ b <= table[i][2])

\* A base strictly inside an upper bracket, just above a bound, has been taxed.
C3_Witness ==
    /\ pc = "done"
    /\ args.base_cents = 16712946
    /\ ~IsZero(ret.tax)

(***************************************************************************)
(* simulate_pit and the joint 60% cap                                      *)
(***************************************************************************)
\* brackets and rates of simulate_pit: (limit in euros, rate in hundredths).
pit_brackets ==
    << <<12450, 19>>, <<20200, 24>>, <<35200, 30>>, <<60000, 37>>,
       <<300000, 45>>, <<INF, 47>> >>

RECURSIVE pit_loop(_, _, _, _)
pit_loop(income, i, last_limit, taxes) ==
    IF i > Len(pit_brackets) THEN taxes
    ELSE LET limit   == pit_brackets[i][1]
             capped  == IF limit = INF THEN income ELSE Min(income, Euros(limit))
             taxable == Max(Sub(capped, last_limit), Zero)
         IN  pit_loop(income, i + 1,
                      IF limit = INF THEN last_limit ELSE Euros(limit),
                      Add(taxes, TimesPct(taxable, pit_brackets[i][2])))

simulate_pit(income) == pit_loop(income, 1, Zero, Zero)

capped_wealth_tax_no_floor(wealth_tax, pit, cap) ==
    IF Gt(Add(wealth_tax, pit), cap) THEN Sub(cap, pit) ELSE wealth_tax

\* np.maximum(0.2 * Wealth_Tax, Cap - PIT_Liability) where Wealth_Tax + PIT > Cap.
capped_wealth_tax_no_pit(wealth_tax, pit, cap) ==
    IF Gt(Add(wealth_tax, pit), cap)
    THEN Max(TimesPct(wealth_tax, 20), cap)
    ELSE wealth_tax

capped_wealth_tax(wealth_tax, pit, cap) ==
    IF Gt(Add(wealth_tax, pit), cap)
    THEN Max(TimesPct(wealth_tax, 20), Sub(cap, pit))
    ELSE wealth_tax

\* apply_tax_cap_and_adjustments, on one row.
apply_tax_cap_and_adjustments(row) ==
    LET cap == TimesPct(row.Income, 60)
        wt  == capped_wealth_tax(row.Wealth_Tax, row.PIT_Liability, cap)
    IN  [Income              |-> row.Income,
         PIT_Liability       |-> row.PIT_Liability,
         Declarant_Weight    |-> row.Declarant_Weight,
         Cap                 |-> cap,
         Wealth_Tax          |-> wt,
         Weighted_Wealth_Tax |-> TimesPct(wt, row.Declarant_Weight)]

(***************************************************************************)
(* assign_erosion                                                          *)
(***************************************************************************)
\* Wealth_Rank is held in 1/10000; the asset ratios in hundredths.
\* base_erosion, in hundredths.
base_erosion(rank) ==
    IF rank > 9990 THEN 35
    ELSE IF rank > 9900 THEN 25
    ELSE IF rank > 9000 THEN 15
    ELSE IF rank > 7500 THEN 7
    ELSE 2

\* modifier, in hundredths.
erosion_modifier(row) ==
    100 + (IF row.Business_Asset_Ratio > 20 THEN 10 ELSE 0)
        + (IF row.Real_Asset_Ratio > 40 THEN 2 ELSE 0)
        + (IF row.Financial_Asset_Ratio > 40 THEN 8 ELSE 0)
        + (IF Lt(row.Income, TimesPct(row.Adj_Net_Wealth, 60)) THEN 5 ELSE 0)

erosion_factor_unclipped(row, max_erosion) ==
    100 * base_erosion(row.Wealth_Rank) * erosion_modifier(row)

\* np.minimum(base_erosion * modifier, max_erosion), in millionths;
\* max_erosion is given in hundredths.
erosion_factor(row, max_erosion) ==
    LET raw == base_erosion(row.Wealth_Rank) * erosion_modifier(row)
    IN  100 * (IF raw < 100 * max_erosion THEN raw ELSE 100 * max_erosion)

\* df[col] = value for every column of updates, the other columns kept.
Assign(row, updates) ==
    [f \in DOMAIN row \cup DOMAIN updates |->
        IF f \in DOMAIN updates THEN updates[f] ELSE row[f]]

\* dropout_prob is 0 below 2,000,000 of adjusted net wealth (and at it), and
\* strictly between 0 and 1 above: the draws np.random.binomial(1, p) can give.
DropoutDraws(row) ==
    IF Gt(row.Adj_Net_Wealth, Euros(2000000)) THEN {0, 1} ELSE {0}

\* assign_erosion(df, max_erosion, base_dropouts=True), on one row, given the
\* row's draw.  Dropout_Prob is kept as whether it is positive.
assign_erosion(row, max_erosion, draw) ==
    Assign(row, [Erosion_Factor        |-> erosion_factor(row, max_erosion),
                 Dropout_Prob_Positive |-> Gt(row.Adj_Net_Wealth, Euros(2000000)),
                 Dropout               |-> draw])

(***************************************************************************)
(* run_tax_simulation                                                      *)
(***************************************************************************)
\* region_scaling, in hundredths (1.0 where the region has no entry).
region_scaling(region) ==
    CASE region = "asturias"    -> 70
      [] region = "catalonia"   -> 170
      [] region = "extremadura" -> 70
      [] region = "galicia"     -> 150
      [] region = "valencia"    -> 90
      [] region = "madrid"      -> 20
      [] OTHER                  -> 100

\* exemption_map, in euros (700,000 where the region has no entry).
exemption_map(region) ==
    CASE region \in {"catalonia", "extremadura", "valencia"} -> 500000
      [] region \in {"asturias", "galicia", "madrid"}        -> 700000
      [] OTHER                                                -> 700000

\* df["Net_Tax_Base"] = (df["Gross_Tax_Base"] - df["Personal_Exemption"]).clip(lower=0)
Net_Tax_Base(gross_tax_base, personal_exemption) ==
    Max(Sub(gross_tax_base, personal_exemption), Zero)

\* df["Taxable_Wealth"] = (Adj_Net_Wealth - Personal_Exemption
\*                         - Primary_Residence_Exempt - Business_Exemption).clip(lower=0)
Taxable_Wealth_no_residence(adj_net_wealth, personal, residence, business) ==
    Max(Sub(Sub(adj_net_wealth, personal), business), Zero)

Taxable_Wealth(adj_net_wealth, personal, residence, business) ==
    Max(Sub(Sub(Sub(adj_net_wealth, personal), residence), business), Zero)

\* The first half of run_tax_simulation, up to the filing test: the columns
\* derived from the assets, the exemptions and the bases, on one row.  The draw
\* of np.random.rand behind `eligible` decides nothing: eligible is never used.
adjusted_bases(row) ==
    LET Total_Assets     == IF "Total_Assets_Pareto" \in DOMAIN row
                            THEN row.Total_Assets_Pareto ELSE row.Total_Assets
        Debts            == TimesPct(Total_Assets, row.Debt_Ratio)
        Real_Assets      == TimesPct(Total_Assets, row.Real_Asset_Ratio)
        Financial_Assets == TimesPct(Total_Assets, row.Financial_Asset_Ratio)
        Business_Assets  == TimesPct(Total_Assets, row.Business_Asset_Ratio)
        Adj_Real         == TimesPct(Real_Assets, 75)
        Adj_Financial    == Financial_Assets
        Adj_Business0    == TimesPct(Business_Assets, 70)
        Residence        == Min(Adj_Real, Euros(300000))
        Personal         == Euros(exemption_map(row.Region))
        Business_Exempt  == Zero
        Reclass          == IF row.Business_Asset_Ratio > 20
                            THEN TimesPct(Adj_Business0, 20) ELSE Zero
        Adj_Business     == Sub(Adj_Business0, Reclass)
        Adj_Total        == Add(Add(Adj_Real, Adj_Financial), Adj_Business)
        Adj_Net_Wealth   == Sub(Adj_Total, Debts)
        Gross_Tax_Base   == Sub(Sub(Adj_Net_Wealth, Residence), Business_Exempt)
        NetBase          == Net_Tax_Base(Gross_Tax_Base, Personal)
        Declarant        == Gt(NetBase, Zero) \/ Gt(Adj_Total, Euros(2000000))
    IN  Assign(row,
          [Region_Scale |-> region_scaling(row.Region),
           Total_Assets |-> Total_Assets, Debts |-> Debts,
           Net_Wealth |-> Sub(Total_Assets, Debts),
           Real_Assets |-> Real_Assets, Financial_Assets |-> Financial_Assets,
           Business_Assets |-> Business_Assets,
           Adj_Real_Assets |-> Adj_Real, Adj_Financial_Assets |-> Adj_Financial,
           Adj_Business_Assets |-> Adj_Business, Adj_Total_Assets |-> Adj_Total,
           Adj_Net_Wealth |-> Adj_Net_Wealth,
           Business_Exemption |-> Business_Exempt,
           Primary_Residence_Exempt |-> Residence,
           Personal_Exemption |-> Personal,
           Business_Reclass |-> Reclass,
           Gross_Tax_Base |-> Gross_Tax_Base, Net_Tax_Base |-> NetBase,
           Gross_Assets |-> Adj_Total,
           Is_Declarant |-> Declarant, Is_Taxpayer |-> Declarant])

\* The function on one row, given the row's dropout draw.
run_tax_simulation(row, draw) ==
    LET eroded         == assign_erosion(adjusted_bases(row), 40, draw)
        Liquid_Heavy   == eroded.Financial_Asset_Ratio > 40
        Income         == IF Liquid_Heavy THEN TimesPct(eroded.Income, 95)
                          ELSE eroded.Income
        Business_High  == eroded.Business_Asset_Ratio > 20
        bumped         == IF Business_High THEN (eroded.Erosion_Factor \div 100) * 105
                          ELSE (eroded.Erosion_Factor \div 100) * 110
        Erosion_Factor == IF bumped > 300000 THEN 300000 ELSE bumped
        Taxable        == Taxable_Wealth(eroded.Adj_Net_Wealth, eroded.Personal_Exemption,
                                         eroded.Primary_Residence_Exempt,
                                         eroded.Business_Exemption)
        Eroded_Base    == TimesPpm(Taxable, 1000000 - Erosion_Factor)
        Tax0           == calculate_ip_tax(Eroded_Base, eroded.Region)
        Tax1           == IF eroded.Dropout > 0 THEN Zero ELSE Tax0
        PIT            == simulate_pit(Income)
        Cap            == TimesPct(Income, 60)
    IN  Assign(eroded,
          [Liquid_Heavy |-> Liquid_Heavy, Income |-> Income,
           Business_High |-> Business_High, Business_Low |-> ~Business_High,
           Erosion_Factor |-> Erosion_Factor,
           Taxable_Wealth |-> Taxable, Taxable_Wealth_Baseline |-> Taxable,
           Taxable_Wealth_Eroded |-> Eroded_Base,
           PIT_Liability |-> PIT, Cap |-> Cap,
           Wealth_Tax |-> capped_wealth_tax(Tax1, PIT, Cap)])

(***************************************************************************)
(* The units handed to the tax engine: individuals after the Pareto tail   *)
(* injection (main, line 1035), one row per frame.                         *)
(***************************************************************************)
MaxAssetLevel == 2
MaxIncomeLevel == 2

\* Wealth ranks on either side of every threshold the engine tests, in 1/10000.
RankValues == {5000, 8000, 9600, 9950, 9995}

\* (Debt_Ratio, Real_Asset_Ratio, Financial_Asset_Ratio, Business_Asset_Ratio),
\* in hundredths: a real-estate-heavy group and a financial- and business-heavy one.
AssetProfiles == { <<10, 60, 30, 10>>, <<0, 30, 50, 30>> }

Individuals ==
    { [Region                |-> region,
       Wealth_Rank           |-> rank,
       Debt_Ratio            |-> profile[1],
       Real_Asset_Ratio      |-> profile[2],
       Financial_Asset_Ratio |-> profile[3],
       Business_Asset_Ratio  |-> profile[4],
       Total_Assets_Pareto   |-> Euros(600000 + 3000000 * k),
       Income                |-> Euros(1 + 40000 * j),
       Final_Weight          |-> 100] :
      region \in { Regions[i] : i \in 1..Len(Regions) }, rank \in RankValues,
      profile \in AssetProfiles, k \in 0..MaxAssetLevel, j \in 0..MaxIncomeLevel }

(***************************************************************************)
(* The two places that enforce the joint cap, each called on its own.      *)
(***************************************************************************)
MaxCapLevel == 4

CapRows ==
    { [Income           |-> Euros(10000 * i),
       Wealth_Tax       |-> Euros(2500 * w),
       PIT_Liability    |-> Euros(2500 * q),
       Declarant_Weight |-> 100] :
      i \in (0 - 1)..MaxCapLevel, w \in 0..MaxCapLevel, q \in 0..MaxCapLevel }

InitCap ==
    /\ pc = "call"
    /\ \/ /\ args = [fn |-> "apply_tax_cap_and_adjustments"]
          /\ \E row \in CapRows : df = <<row>>
       \/ /\ args = [fn |-> "run_tax_simulation"]
          /\ \E row \in Individuals : df = <<row>>
    /\ ret = None

CallApplyTaxCap ==
    /\ pc = "call"
    /\ args.fn = "apply_tax_cap_and_adjustments"
    /\ ret' = [status |-> "ok", rows |-> <<apply_tax_cap_and_adjustments(df[1])>>]
    /\ pc' = "done"
    /\ UNCHANGED <<args, df>>

CallRunTaxSimulation ==
    /\ pc = "call"
    /\ args.fn = "run_tax_simulation"
    /\ \E draw \in DropoutDraws(adjusted_bases(df[1])) :
          ret' = [status |-> "ok", rows |-> <<run_tax_simulation(df[1], draw)>>]
    /\ pc' = "done"
    /\ UNCHANGED <<args, df>>

NextCap == CallApplyTaxCap \/ CallRunTaxSimulation

SpecCap == InitCap /\ [][NextCap]_vars

\* The wealth tax of a row of run_tax_simulation before the cap: the bracket
\* tax of the eroded base, 0 for a dropout.
PreCapWealthTax(row) ==
    IF row.Dropout > 0 THEN Zero
    ELSE calculate_ip_tax(row.Taxable_Wealth_Eroded, row.Region)

\* before: wealth tax ahead of the cap; after: the row the function returned.
CapEnforced(before, after) ==
    Gt(Add(before, after.PIT_Liability), TimesPct(after.Income, 60)) =>
        \/ Le(Add(after.Wealth_Tax, after.PIT_Liability), TimesPct(after.Income, 60))
        \/ after.Wealth_Tax = TimesPct(before, 20)

\* C4: after the joint cap, every unit whose pre-cap wealth tax plus income tax
\* exceeded 60% of its income has wealth tax + income tax <= 60% of income, or
\* a wealth tax of exactly 20% of the pre-cap one; in run_tax_simulation and in
\* apply_tax_cap_and_adjustments.
C4_JointCap ==
    pc = "done" =>
        IF args.fn = "run_tax_simulation"
        THEN CapEnforced(PreCapWealthTax(ret.rows[1]), ret.rows[1])
        ELSE CapEnforced(df[1].Wealth_Tax, ret.rows[1])

\* A unit of run_tax_simulation over the limit that the cap brought down to
\* exactly the limit, above the 20% floor.
C4_Witness ==
    /\ pc = "done"
    /\ args.fn = "run_tax_simulation"
    /\ LET before == PreCapWealthTax(ret.rows[1])
       IN  /\ Gt(Add(before, ret.rows[1].PIT_Liability), ret.rows[1].Cap)
           /\ Add(ret.rows[1].Wealth_Tax, ret.rows[1].PIT_Liability) = ret.rows[1].Cap
           /\ Gt(ret.rows[1].Wealth_Tax, TimesPct(before, 20))

(***************************************************************************)
(* apply_migration_module and apply_baseline_behavioral_erosion            *)
(***************************************************************************)
\* thresholds main passes, in 1/10000; every base probability is positive, so
\* Migration_Prob is positive exactly above the lowest threshold.  The frame
\* main passes has no Wealth_Tax_Baseline column yet: the ratio bump is skipped.
thresholds == [top_01 |-> 9990, top_1 |-> 9900, top_5 |-> 9500]

Migration_Prob_Positive(row) == row.Wealth_Rank > thresholds.top_5

\* The outcomes np.random.rand() < Migration_Prob can have.
MigrationDraws(row) == IF Migration_Prob_Positive(row) THEN {TRUE, FALSE} ELSE {FALSE}

apply_migration_module_keeps_tax(row, exit) ==
    Assign(row, [Migration_Prob_Positive |-> Migration_Prob_Positive(row),
                 Migration_Exit          |-> exit,
                 Taxable_Wealth_Eroded   |-> IF exit THEN Zero ELSE row.Taxable_Wealth_Eroded])

apply_migration_module(row, exit) ==
    Assign(row, [Migration_Prob_Positive |-> Migration_Prob_Positive(row),
                 Migration_Exit          |-> exit,
                 Taxable_Wealth_Eroded   |-> IF exit THEN Zero ELSE row.Taxable_Wealth_Eroded,
                 Wealth_Tax              |-> IF exit THEN Zero ELSE row.Wealth_Tax])

apply_baseline_behavioral_erosion(row) ==
    LET eroded_base == TimesPpm(row.Taxable_Wealth_Baseline, 1000000 - row.Erosion_Factor)
        eroded_tax  == calculate_ip_tax(eroded_base, row.Region)
    IN  Assign(row, [Taxable_Wealth_Baseline_Eroded      |-> eroded_base,
                     Wealth_Tax_Baseline_Eroded          |-> eroded_tax,
                     Weighted_Wealth_Tax_Baseline_Eroded |->
                         TimesPct(eroded_tax, row.Final_Weight)])

(***************************************************************************)
(* main, from the tax simulation to the output table; the frame holds one  *)
(* unit, every step of main being row-wise.                                *)
(***************************************************************************)
Init ==
    /\ pc = "run_tax_simulation"
    /\ args = [fn |-> "main"]
    /\ \E row \in Individuals : df = <<row>>
    /\ ret = None

\* taxed_individuals = run_tax_simulation(individuals)
RunTaxSimulation ==
    /\ pc = "run_tax_simulation"
    /\ \E draw \in DropoutDraws(adjusted_bases(df[1])) :
          df' = <<run_tax_simulation(df[1], draw)>>
    /\ pc' = "madrid_override"
    /\ UNCHANGED <<args, ret>>

\* taxed_individuals.loc[Region.str.lower() == "madrid", "Wealth_Tax"] = 0.0
MadridOverride ==
    /\ pc = "madrid_override"
    /\ df' = <<IF df[1].Region = "madrid"
               THEN Assign(df[1], [Wealth_Tax |-> Zero]) ELSE df[1]>>
    /\ pc' = "assign_erosion"
    /\ UNCHANGED <<args, ret>>

\* taxed_individuals = assign_erosion(taxed_individuals, max_erosion=0.30)
AssignErosion ==
    /\ pc = "assign_erosion"
    /\ \E draw \in DropoutDraws(df[1]) : df' = <<assign_erosion(df[1], 30, draw)>>
    /\ pc' = "apply_migration_module"
    /\ UNCHANGED <<args, ret>>

ApplyMigrationModule ==
    /\ pc = "apply_migration_module"
    /\ \E exit \in MigrationDraws(df[1]) : df' = <<apply_migration_module(df[1], exit)>>
    /\ pc' = "baseline"
    /\ UNCHANGED <<args, ret>>

\* Taxable_Wealth_Baseline = Net_Tax_Base, and the bracket tax of it.
BaselineTax ==
    /\ pc = "baseline"
    /\ df' = <<Assign(df[1],
                 [Taxable_Wealth_Baseline |-> df[1].Net_Tax_Base,
                  Wealth_Tax_Baseline     |->
                      calculate_ip_tax(df[1].Net_Tax_Base, df[1].Region)])>>
    /\ pc' = "apply_baseline_behavioral_erosion"
    /\ UNCHANGED <<args, ret>>

ApplyBaselineBehavioralErosion ==
    /\ pc = "apply_baseline_behavioral_erosion"
    /\ df' = <<apply_baseline_behavioral_erosion(df[1])>>
    /\ pc' = "to_csv"
    /\ UNCHANGED <<args, ret>>

\* taxed_individuals.to_csv("simulated_thesis.csv", index=False)
WriteOutput ==
    /\ pc = "to_csv"
    /\ ret' = [status |-> "written", rows |-> df]
    /\ pc' = "done"
    /\ UNCHANGED <<args, df>>

Next ==
    \/ RunTaxSimulation
    \/ MadridOverride
    \/ AssignErosion
    \/ ApplyMigrationModule
    \/ BaselineTax
    \/ ApplyBaselineBehavioralErosion
    \/ WriteOutput

Spec == Init /\ [][Next]_vars

\* C7: for every unit that has gone through run_tax_simulation, Taxable_Wealth
\* equals Net_Tax_Base, and so does Taxable_Wealth_Baseline, both as the
\* function sets it and after main sets it again from Net_Tax_Base.
C7_TaxableWealthIsNetTaxBase ==
    pc # "run_tax_simulation" =>
        /\ df[1].Taxable_Wealth = df[1].Net_Tax_Base
        /\ df[1].Taxable_Wealth_Baseline = df[1].Net_Tax_Base

\* A unit with a positive net base and positive personal and residence
\* exemptions, past main's reassignment of the baseline.
C7_Witness ==
    /\ pc = "done"
    /\ Gt(ret.rows[1].Net_Tax_Base, Zero)
    /\ Gt(ret.rows[1].Personal_Exemption, Zero)
    /\ Gt(ret.rows[1].Primary_Residence_Exempt, Zero)
    /\ ret.rows[1].Taxable_Wealth_Baseline = ret.rows[1].Taxable_Wealth

\* C10: every row written to the output table with Dropout = 1 has wealth tax 0.
C10_DropoutPaysNoWealthTax ==
    pc = "done" =>
        \A i \in 1..Len(ret.rows) : ret.rows[i].Dropout = 1 => IsZero(ret.rows[i].Wealth_Tax)

\* C11: every unit flagged as a migration exit has eroded taxable base 0 and
\* wealth tax 0 when apply_migration_module returns, at every later step of
\* main, and in the row written to the output table.
C11_MigrantsPayNoWealthTax ==
    /\ pc \in {"baseline", "apply_baseline_behavioral_erosion", "to_csv", "done"} =>
          (df[1].Migration_Exit =>
              IsZero(df[1].Taxable_Wealth_Eroded) /\ IsZero(df[1].Wealth_Tax))
    /\ pc = "done" =>
          \A i \in 1..Len(ret.rows) :
              ret.rows[i].Migration_Exit =>
                  IsZero(ret.rows[i].Taxable_Wealth_Eroded) /\ IsZero(ret.rows[i].Wealth_Tax)

\* A written migrant outside madrid with a positive taxable base, not a
\* dropout of either draw's making: its tax was positive before the module.
C11_Witness ==
    /\ pc = "done"
    /\ ret.rows[1].Migration_Exit
    /\ ret.rows[1].Region # "madrid"
    /\ Gt(ret.rows[1].Taxable_Wealth, Zero)
    /\ Gt(ret.rows[1].Wealth_Tax_Baseline, Zero)
    /\ IsZero(ret.rows[1].Wealth_Tax)

\* The table the source lists under a region's name, by the region's name as
\* the units carry it (lower case, lines 139-140 and 179-180).
own_table(region) ==
    CASE region = "catalonia"   -> regional_scales_Catalonia
      [] region = "madrid"      -> regional_scales_Madrid
      [] region = "extremadura" -> regional_scales_Extremadura
      [] region = "galicia"     -> regional_scales_Galicia
      [] region = "asturias"    -> regional_scales_Asturias
      [] region = "valencia"    -> regional_scales_Valencia
      [] OTHER                  -> regional_scales_default

\* C12: for each of the six named regions the wealth tax main computes for a
\* unit (line 1069, on the baseline taxable wealth) is the bracket tax under
\* that region's own table.
C12_TaxUnderOwnRegionTable ==
    pc \in {"apply_baseline_behavioral_erosion", "to_csv"} =>
        df[1].Wealth_Tax_Baseline =
            bracket_loop(df[1].Taxable_Wealth_Baseline, own_table(df[1].Region), 1, Zero)

\* The eroded base a row's Wealth_Tax was computed from (line 689) is the
\* row's taxable wealth discounted by the row's Erosion_Factor (line 687).
TaxedWithOwnFactor(row) ==
    row.Taxable_Wealth_Eroded = TimesPpm(row.Taxable_Wealth, 1000000 - row.Erosion_Factor)

\* C22: the Erosion_Factor of every row written to the output table is the
\* factor its Wealth_Tax was computed with: the factor is assigned, bumped and
\* re-clipped before the tax is computed and is not assigned again after it.
\* (A migrant's eroded base is set to 0 after the tax; it is left out.)
C22_OutputFactorIsTaxFactor ==
    pc = "done" =>
        \A i \in 1..Len(ret.rows) :
            ~ret.rows[i].Migration_Exit => TaxedWithOwnFactor(ret.rows[i])

\* An erosion factor, in millionths, between 0 and the ceiling 0.30.
WithinCeiling(factor) == 0 <= factor /\ factor <= 300000

\* C23: wherever a pipeline run discounts a base by an erosion factor, the
\* factor lies between 0 and 0.30: in run_tax_simulation, whose bumps are
\* followed by the re-clip before the eroded base is taken (line 687), and in
\* apply_baseline_behavioral_erosion (line 708), which uses the factor main
\* assigned with max_erosion=0.30; and no row of the run ever carries a factor
\* outside that range.
C23_FactorWithinCeilingAtUse ==
    /\ pc # "run_tax_simulation" => WithinCeiling(df[1].Erosion_Factor)
    /\ pc = "madrid_override" => TaxedWithOwnFactor(df[1])
    /\ pc = "to_csv" =>
          df[1].Taxable_Wealth_Baseline_Eroded =
              TimesPpm(df[1].Taxable_Wealth_Baseline, 1000000 - df[1].Erosion_Factor)

\* A unit of the top 0.1% with a positive base, just out of
\* run_tax_simulation: its bumped factor is at least 0.35 * 1.05, and the
\* base was discounted by the ceiling.
C23_Witness ==
    /\ pc = "madrid_override"
    /\ base_erosion(df[1].Wealth_Rank) * 100 * 105 > 300000
    /\ df[1].Erosion_Factor = 300000
    /\ Gt(df[1].Taxable_Wealth, Zero)
    /\ df[1].Taxable_Wealth_Eroded = TimesPct(df[1].Taxable_Wealth, 70)

(***************************************************************************)
(* inject_calibrated_pareto_tail                                           *)
(* A row is [id, Total_Assets, Debt_Ratio, Debts, Net_Wealth, Weight], the *)
(* amounts as rationals; id names the unit across the sort.                *)
(***************************************************************************)
\* int(n * 0.01) and int(n * 0.10)
top1_n(n) == n \div 100
top10_n(n) == n \div 10

\* df.sort_values("Total_Assets", ascending=False).reset_index(drop=True), for
\* a frame without ties in Total_Assets.
sort_values_descending(rows) ==
    LET n   == Len(rows)
        pos == Array([i \in 1..n |->
                   1 + Cardinality({ j \in 1..n :
                           RLt(rows[i].Total_Assets, rows[j].Total_Assets) })], n)
    IN  Array([p \in 1..n |-> rows[CHOOSE i \in 1..n : pos[i] = p]], n)

\* rng.pareto(alpha, size): the draws are positive and a function of the seed
\* and of how many draws the generator has given before (drawn).
MaxSample == 3

pareto(seed, drawn, size) ==
    Array([k \in 1..size |-> R(1 + ((seed * (drawn + k) + k) % MaxSample))], size)

\* scale = target / (sample * weights).sum()
window_scale_unweighted(target, sample, weights) ==
    RDiv(target, RSum(sample))

window_scale(target, sample, weights) ==
    RDiv(target, RSum(Array([k \in 1..Len(sample) |-> RMul(sample[k], weights[k])],
                            Len(sample))))

\* debt_arr = ta_arr * dr_arr; nw_arr = ta_arr - debt_arr, on one row of the
\* two windows, ta being the row's new Total_Assets.
recalculate_keeps_debts(row, ta) ==
    [row EXCEPT !.Total_Assets = ta, !.Net_Wealth = RSub(ta, row.Debts)]

recalculate(row, ta) ==
    [row EXCEPT !.Total_Assets = ta,
                !.Debts        = RMul(ta, row.Debt_Ratio),
                !.Net_Wealth   = RSub(ta, RMul(ta, row.Debt_Ratio))]

inject_calibrated_pareto_tail(rows, top1_share_target, top10_share_target, seed) ==
    LET sorted           == sort_values_descending(rows)
        n                == Len(sorted)
        t1               == top1_n(n)
        t10              == top10_n(n)
        total_net_wealth == RSum(Array([i \in 1..n |-> sorted[i].Net_Wealth], n))
        top1_weights     == Array([k \in 1..t1 |-> sorted[k].Weight], t1)
        top1_sample      == pareto(seed, 0, t1)
        scale1           == window_scale(RMul(top1_share_target, total_net_wealth),
                                         top1_sample, top1_weights)
        top10_weights    == Array([k \in 1..(t10 - t1) |-> sorted[t1 + k].Weight], t10 - t1)
        top10_sample     == pareto(seed, t1, t10 - t1)
        target_top10     == RSub(RMul(top10_share_target, total_net_wealth),
                                 RMul(top1_share_target, total_net_wealth))
        scale10          == window_scale(target_top10, top10_sample, top10_weights)
    IN  Array([i \in 1..n |->
            IF i <= t1 THEN recalculate(sorted[i], RMul(top1_sample[i], scale1))
            ELSE IF i <= t10
            THEN recalculate(sorted[i], RMul(top10_sample[i - t1], scale10))
            ELSE sorted[i]], n)

\* The frames: n units whose Total_Assets are a permutation of 10, 20, .. 10n,
\* debt ratios 0, 1/4 or 1/2 and weights 1, 4/5 or 1/5 (a whole household, or
\* the two parts of a split one), debts and net wealth consistent with them.
MaxRows == 200
MaxStep == 3
MaxDebtStep == 2
MaxSeed == 1

RowCounts == {9, 10, 99, 100, MaxRows}

SplitWeights == << <<1, 1>>, <<4, 5>>, <<1, 5>> >>

ParetoFrame(n, a, c, d) ==
    Array([i \in 1..n |->
        LET ta == R(10 * (1 + ((a * i) % n)))
            dr == RNorm((c * i) % 3, 4)
        IN  [id           |-> i,
             Total_Assets |-> ta,
             Debt_Ratio   |-> dr,
             Debts        |-> RMul(ta, dr),
             Net_Wealth   |-> RSub(ta, RMul(ta, dr)),
             Weight       |-> SplitWeights[1 + ((d * i) % 3)]]], n)

InitPareto ==
    /\ pc = "call"
    /\ \E n \in RowCounts : \E a \in { m \in 1..MaxStep : Gcd(m, n) = 1 } :
         \E c \in 0..MaxDebtStep : \E d \in 0..1 :
            df = ParetoFrame(n, a, c, d)
    /\ \E seed \in 0..MaxSeed :
          args = [fn |-> "inject_calibrated_pareto_tail",
                  top1_share_target |-> <<1, 5>>, top10_share_target |-> <<1, 2>>,
                  seed |-> seed]
    /\ ret = None

CallInjectCalibratedParetoTail ==
    /\ pc = "call"
    /\ args.fn = "inject_calibrated_pareto_tail"
    /\ ret' = [status |-> "ok",
               rows   |-> inject_calibrated_pareto_tail(
                              df, args.top1_share_target, args.top10_share_target,
                              args.seed)]
    /\ pc' = "done"
    /\ UNCHANGED <<args, df>>

NextPareto == CallInjectCalibratedParetoTail

SpecPareto == InitPareto /\ [][NextPareto]_vars

\* Aggregate net wealth as the function takes it: the sum of Net_Wealth over
\* the frame it was given.
total_net_wealth_before ==
    RSum(Array([i \in 1..Len(df) |-> df[i].Net_Wealth], Len(df)))

\* The sum of column * Weight over the rows first..last of the returned frame.
WindowWeighted(column, first, last) ==
    RSum(Array([k \in 1..(last - first + 1) |->
                   RMul(ret.rows[first + k - 1][column], ret.rows[first + k - 1].Weight)],
               last - first + 1))

\* C5, as stated: the top-1% window's sum of Net_Wealth * Weight is the top-1%
\* target times aggregate net wealth, and the next-9% window's is the top-10%
\* target less the top-1% target, times aggregate net wealth.
C5_WindowNetWealthMatchesTargets ==
    pc = "done" =>
        LET n == Len(ret.rows)
        IN  /\ WindowWeighted("Net_Wealth", 1, top1_n(n))
                 = RMul(args.top1_share_target, total_net_wealth_before)
            /\ WindowWeighted("Net_Wealth", top1_n(n) + 1, top10_n(n))
                 = RMul(RSub(args.top10_share_target, args.top1_share_target),
                        total_net_wealth_before)

\* C5, amended: in each window that is not empty it is the sum of
\* Total_Assets * Weight that equals the window's target times the sum of
\* Net_Wealth over the frame before the injection.
C5_WindowAssetsMatchTargets ==
    pc = "done" =>
        LET n == Len(ret.rows)
        IN  /\ top1_n(n) > 0 =>
                 WindowWeighted("Total_Assets", 1, top1_n(n))
                   = RMul(args.top1_share_target, total_net_wealth_before)
            /\ top10_n(n) > top1_n(n) =>
                 WindowWeighted("Total_Assets", top1_n(n) + 1, top10_n(n))
                   = RMul(RSub(args.top10_share_target, args.top1_share_target),
                          total_net_wealth_before)

\* Both windows hold units, some with debts and with weights other than 1.
C5_Witness ==
    /\ pc = "done"
    /\ top1_n(Len(ret.rows)) > 1
    /\ \E p \in 1..top1_n(Len(ret.rows)) :
          ret.rows[p].Debt_Ratio # R(0) /\ ret.rows[p].Weight # R(1)
    /\ \E p \in (top1_n(Len(ret.rows)) + 1)..top10_n(Len(ret.rows)) :
          ret.rows[p].Debt_Ratio # R(0) /\ ret.rows[p].Weight # R(1)

\* C6: every unit keeps its Debt_Ratio; a unit in one of the two windows has
\* Debts = Total_Assets * Debt_Ratio and Net_Wealth = Total_Assets - Debts; a
\* unit outside them keeps its Total_Assets, Debts and Net_Wealth.
C6_DebtRatioKeptAndWindowsRecomputed ==
    pc = "done" =>
        /\ Len(ret.rows) = Len(df)
        /\ { ret.rows[p].id : p \in 1..Len(ret.rows) } = 1..Len(df)
        /\ \A p \in 1..Len(ret.rows) :
              LET after  == ret.rows[p]
                  before == df[after.id]
              IN  /\ after.Debt_Ratio = before.Debt_Ratio
                  /\ p <= top10_n(Len(ret.rows)) =>
                        /\ after.Debts = RMul(after.Total_Assets, after.Debt_Ratio)
                        /\ after.Net_Wealth = RSub(after.Total_Assets, after.Debts)
                  /\ p > top10_n(Len(ret.rows)) =>
                        /\ after.Total_Assets = before.Total_Assets
                        /\ after.Debts = before.Debts
                        /\ after.Net_Wealth = before.Net_Wealth

\* A window unit with debts whose Total_Assets the injection changed.
C6_Witness ==
    /\ pc = "done"
    /\ \E p \in 1..top10_n(Len(ret.rows)) :
          /\ ret.rows[p].Debt_Ratio # R(0)
          /\ ret.rows[p].Total_Assets # df[ret.rows[p].id].Total_Assets
          /\ ret.rows[p].Debts # df[ret.rows[p].id].Debts

(***************************************************************************)
(* expand_households_to_individuals                                        *)
(* A household is [Original_ID, Household_Size, Weight] and the monetary   *)
(* columns, the amounts as rationals.                                      *)
(***************************************************************************)
monetary_cols ==
    {"Total_Assets", "Debts", "Real_Assets", "Financial_Assets",
     "Business_Assets", "Income", "Net_Wealth"}

\* df["Split"] = (df["Net_Wealth"] > base_threshold) & (rng.random(len(df)) < split_prob)
Split_at_or_above(net_wealth, base_threshold, draw, split_prob) ==
    RLe(R(base_threshold), net_wealth) /\ RLt(draw, split_prob)

Split(net_wealth, base_threshold, draw, split_prob) ==
    RLt(R(base_threshold), net_wealth) /\ RLt(draw, split_prob)

\* The ratios of a household's units: 1.0 unsplit, else 0.8 and 0.2 when the
\* household's ratio draw is below 0.5, 0.9 and 0.1 otherwise.
unit_ratios(split, draw) ==
    IF ~split THEN << <<1, 1>> >>
    ELSE IF RLt(draw, <<1, 2>>) THEN << <<4, 5>>, <<1, 5>> >>
    ELSE << <<9, 10>>, <<1, 10>> >>

\* One row of repeated_df: the monetary columns and the weight times the ratio,
\* Tax_Unit_ID and Split_From set.
scale_unit_keeps_weight(row, ratio, unit_index) ==
    [f \in DOMAIN row \cup {"Tax_Unit_ID", "Split_From"} |->
        CASE f \in monetary_cols -> RMul(row[f], ratio)
          [] f = "Tax_Unit_ID"   -> unit_index + 1
          [] f = "Split_From"    -> row.Original_ID
          [] OTHER               -> row[f]]

scale_unit(row, ratio, unit_index) ==
    [f \in DOMAIN row \cup {"Tax_Unit_ID", "Split_From"} |->
        CASE f \in monetary_cols -> RMul(row[f], ratio)
          [] f = "Weight"        -> RMul(row.Weight, ratio)
          [] f = "Tax_Unit_ID"   -> unit_index + 1
          [] f = "Split_From"    -> row.Original_ID
          [] OTHER               -> row[f]]

\* The rows of households i.. of the frame.  random is the stream of
\* rng.random(): its first len(df) values decide the splits, and each split
\* household, in frame order, takes the next value for its ratios (used
\* counts the values taken so far).
RECURSIVE repeated_rows(_, _, _, _, _, _)
repeated_rows(rows, base_threshold, split_prob, random, i, used) ==
    IF i > Len(rows) THEN <<>>
    ELSE LET split  == Split(rows[i].Net_Wealth, base_threshold, random[i], split_prob)
             ratios == unit_ratios(split, random[Len(rows) + used + 1])
             units  == [u \in 1..Len(ratios) |-> scale_unit(rows[i], ratios[u], u - 1)]
         IN  units \o repeated_rows(rows, base_threshold, split_prob, random, i + 1,
                                    IF split THEN used + 1 ELSE used)

\* if "Household_Size" not in df.columns: df["Household_Size"] = 1
\* if "Weight" not in df.columns: df["Weight"] = 1.0
default_columns(row) ==
    [f \in DOMAIN row \cup {"Household_Size", "Weight"} |->
        IF f \in DOMAIN row THEN row[f]
        ELSE IF f = "Weight" THEN R(1) ELSE 1]

expand_households_to_individuals(rows, base_threshold, split_prob, random) ==
    repeated_rows(Array([i \in 1..Len(rows) |-> default_columns(rows[i])], Len(rows)),
                  base_threshold, split_prob, random, 1, 0)

\* The households: net wealth just under, at, just over and well over the
\* threshold, whole and fractional weights.
MaxHouseholds == 2
MaxWeightHalves == 3

Household(id, net_wealth, weight_halves) ==
    LET debts == 125000 * weight_halves
        total == net_wealth + debts
    IN  [Original_ID      |-> id,
         Household_Size   |-> 1 + (weight_halves % 2),
         Weight           |-> RNorm(weight_halves, 2),
         Total_Assets     |-> R(total),
         Debts            |-> R(debts),
         Real_Assets      |-> RNorm(total, 2),
         Financial_Assets |-> RNorm(3 * total, 10),
         Business_Assets  |-> RNorm(total, 5),
         Income           |-> R(30001),
         Net_Wealth       |-> R(net_wealth)]

NetWealthAround(base_threshold) ==
    {base_threshold - 1, base_threshold, base_threshold + 1, 3 * base_threshold}

\* Values of rng.random(): below 0.5, at 0.5 (below split_prob), at split_prob.
Draws == << <<2, 5>>, <<1, 2>>, <<7, 10>> >>

RandomStreams(n) ==
    { [k \in 1..n |-> Draws[1 + ((s * k + t) % Len(Draws))]] :
        s \in 0..(Len(Draws) - 1), t \in 0..(Len(Draws) - 1) }

HouseholdFrames(base_threshold) ==
    UNION { { [i \in 1..n |->
                 Household(i - 1, nw[i], IF i = 1 THEN w ELSE 2)] :
              nw \in [1..n -> NetWealthAround(base_threshold)],
              w \in 1..MaxWeightHalves } :
            n \in 1..MaxHouseholds }

InitExpand ==
    /\ pc = "call"
    /\ \E base_threshold \in {600000, 1000000} :
         \E frame \in HouseholdFrames(base_threshold) :
           \E random \in RandomStreams(2 * Len(frame)) :
              /\ df = frame
              /\ args = [base_threshold |-> base_threshold, split_prob |-> <<7, 10>>,
                         random |-> random]
    /\ ret = None

CallExpandHouseholdsToIndividuals ==
    /\ pc = "call"
    /\ ret' = [status |-> "ok",
               rows   |-> expand_households_to_individuals(
                              df, args.base_threshold, args.split_prob, args.random)]
    /\ pc' = "done"
    /\ UNCHANGED <<args, df>>

NextExpand == CallExpandHouseholdsToIndividuals

SpecExpand == InitExpand /\ [][NextExpand]_vars

\* The positions in the returned frame of the units of household i.
UnitsOf(i) == { p \in 1..Len(ret.rows) : ret.rows[p].Split_From = df[i].Original_ID }

\* C8: a household whose net wealth is exactly the threshold is never split,
\* whatever its draw; one whose net wealth is one currency unit above it is
\* split whenever its draw is below split_prob.
C8_SplitStrictlyAboveThreshold ==
    pc = "done" =>
        \A i \in 1..Len(df) :
            /\ df[i].Net_Wealth = R(args.base_threshold) => Cardinality(UnitsOf(i)) = 1
            /\ (df[i].Net_Wealth = R(args.base_threshold + 1)
                  /\ RLt(args.random[i], args.split_prob)) => Cardinality(UnitsOf(i)) = 2

\* A frame with a household at the threshold, left whole although its draw is
\* below split_prob, and a household one unit above it, split.
C8_Witness ==
    /\ pc = "done"
    /\ \E i \in 1..Len(df) :
          /\ df[i].Net_Wealth = R(args.base_threshold)
          /\ RLt(args.random[i], args.split_prob)
          /\ Cardinality(UnitsOf(i)) = 1
    /\ \E i \in 1..Len(df) :
          /\ df[i].Net_Wealth = R(args.base_threshold + 1)
          /\ Cardinality(UnitsOf(i)) = 2

\* The sum of a column over a set of positions of the returned frame.
RECURSIVE SumOver(_, _)
SumOver(column, positions) ==
    IF positions = {} THEN R(0)
    ELSE LET p == CHOOSE q \in positions : TRUE
         IN  RAdd(ret.rows[p][column], SumOver(column, positions \ {p}))

\* C9: every household becomes one or two units, whose weights sum to the
\* household's weight and whose monetary columns each sum to the household's
\* value of the column.
C9_UnitsSumToHousehold ==
    pc = "done" =>
        /\ \A p \in 1..Len(ret.rows) : \E i \in 1..Len(df) : p \in UnitsOf(i)
        /\ \A i \in 1..Len(df) :
              /\ Cardinality(UnitsOf(i)) \in {1, 2}
              /\ SumOver("Weight", UnitsOf(i)) = df[i].Weight
              /\ \A column \in monetary_cols :
                    SumOver(column, UnitsOf(i)) = df[i][column]

\* A household split 0.9 / 0.1 whose weight is not 1.
C9_Witness ==
    /\ pc = "done"
    /\ \E i \in 1..Len(df) : \E p \in UnitsOf(i) :
          /\ Cardinality(UnitsOf(i)) = 2
          /\ df[i].Weight # R(1)
          /\ ret.rows[p].Weight = RMul(df[i].Weight, <<1, 10>>)

(***************************************************************************)
(* apply_region_multipliers, and the noise-and-floor step of               *)
(* generate_and_adjust_households (lines 419-438).  Amounts and ratios are *)
(* rationals; a frame is a sequence of rows with the same columns.         *)
(***************************************************************************)
required_ratios == <<"Debt_Ratio", "Real_Asset_Ratio", "Financial_Asset_Ratio">>

\* The body of the loop over regions, on one row of the region.
scale_region_keeps_net_wealth(row, factor, recompute) ==
    LET ta == RMul(row.Total_Assets, factor)
    IN  IF ~recompute THEN [row EXCEPT !.Total_Assets = ta]
        ELSE Assign(row,
               [Total_Assets     |-> ta,
                Debts            |-> RMul(ta, row.Debt_Ratio),
                Real_Assets      |-> RMul(ta, row.Real_Asset_Ratio),
                Financial_Assets |-> RMul(ta, row.Financial_Asset_Ratio),
                Business_Assets  |-> IF "Business_Asset_Ratio" \in DOMAIN row
                                     THEN RMul(ta, row.Business_Asset_Ratio) ELSE R(0)])

scale_region(row, factor, recompute) ==
    LET ta == RMul(row.Total_Assets, factor)
    IN  IF ~recompute THEN [row EXCEPT !.Total_Assets = ta]
        ELSE Assign(row,
               [Total_Assets     |-> ta,
                Debts            |-> RMul(ta, row.Debt_Ratio),
                Net_Wealth       |-> RSub(ta, RMul(ta, row.Debt_Ratio)),
                Real_Assets      |-> RMul(ta, row.Real_Asset_Ratio),
                Financial_Assets |-> RMul(ta, row.Financial_Asset_Ratio),
                Business_Assets  |-> IF "Business_Asset_Ratio" \in DOMAIN row
                                     THEN RMul(ta, row.Business_Asset_Ratio) ELSE R(0)])

\* The validation loop from column k on: the first column that is missing
\* raises KeyError, the first that holds a NaN raises ValueError.
RECURSIVE validate_ratios(_, _)
validate_ratios(rows, k) ==
    IF k > Len(required_ratios) THEN "ok"
    ELSE IF required_ratios[k] \notin DOMAIN rows[1] THEN "KeyError"
    ELSE IF \E i \in 1..Len(rows) : IsNaN(rows[i][required_ratios[k]]) THEN "ValueError"
    ELSE validate_ratios(rows, k + 1)

\* multipliers is a function from some of the regions to their factors.
apply_region_multipliers(rows, multipliers, recompute) ==
    LET status == validate_ratios(rows, 1)
    IN  IF status # "ok" THEN [status |-> status]
        ELSE [status |-> "ok",
              rows   |-> Array([i \in 1..Len(rows) |->
                            scale_region(rows[i],
                                         IF rows[i].Region \in DOMAIN multipliers
                                         THEN multipliers[rows[i].Region] ELSE R(1),
                                         recompute)], Len(rows))]

\* Lines 419-438 on one row: the three noise factors (the second drawn for
\* ranks in (0.3, 0.9], the third for ranks up to 0.5), Business_Assets (the
\* merged statistics carry no such column: df.get gives 0.0), debts from the
\* ratio, net wealth floored at 7000 and Total_Assets rebuilt from it.
noise_and_floor(row, noise1, noise2, noise3) ==
    LET ta1  == RMul(row.Total_Assets, noise1)
        ta2  == IF row.Wealth_Rank > 3000 /\ row.Wealth_Rank <= 9000
                THEN RMul(ta1, noise2) ELSE ta1
        ta3  == IF row.Wealth_Rank <= 5000 THEN RMul(ta2, noise3) ELSE ta2
        debt == RMul(ta3, row.Debt_Ratio)
        nw0  == RSub(ta3, debt)
        nw   == IF RLt(nw0, R(7000)) THEN R(7000) ELSE nw0
        ta   == RAdd(nw, debt)
    IN  Assign(row,
          [Total_Assets     |-> ta,
           Business_Assets  |-> R(0),
           Debts            |-> debt,
           Net_Wealth       |-> nw,
           Real_Assets      |-> RMul(ta, row.Real_Asset_Ratio),
           Financial_Assets |-> RMul(ta, row.Financial_Asset_Ratio)])

MaxMultiplier == 4
MaxNoise == 3

\* Factors 1/2, 1, 3/2, ...
Multipliers == { RNorm(k, 2) : k \in 1..MaxMultiplier }

\* Draws of the normal noise: 1/2, 1, 3/2, ... and a negative one.
NoiseDraws == { RNorm(k, 2) : k \in 1..MaxNoise } \cup { RNorm(0 - 1, 2) }

MultiplierMaps ==
    UNION { [regions -> Multipliers] : regions \in SUBSET {"madrid", "galicia"} }

\* A unit as the pipeline leaves it: debts and net wealth consistent with
\* Total_Assets and its ratios (a NaN ratio makes them NaN).
RegionRow(region, ta, dr) ==
    [Region                |-> region,
     Total_Assets          |-> ta,
     Debt_Ratio            |-> dr,
     Real_Asset_Ratio      |-> RNorm(3, 5),
     Financial_Asset_Ratio |-> RNorm(3, 10),
     Business_Asset_Ratio  |-> RNorm(1, 10),
     Debts                 |-> RMul(ta, dr),
     Net_Wealth            |-> RSub(ta, RMul(ta, dr)),
     Real_Assets           |-> RMul(ta, RNorm(3, 5)),
     Financial_Assets      |-> RMul(ta, RNorm(3, 10)),
     Business_Assets       |-> RMul(ta, RNorm(1, 10))]

Without(row, column) == [f \in DOMAIN row \ {column} |-> row[f]]

RegionFrames ==
    { <<RegionRow(r1, R(100 * a), d1), RegionRow(r2, R(200), d2)>> :
        r1 \in {"madrid", "galicia"}, r2 \in {"galicia", "asturias"},
        a \in {1, 3}, d1 \in {R(0), RNorm(1, 4), NaN}, d2 \in {R(0), RNorm(1, 4)} }
    \cup { <<Without(RegionRow(r1, R(100), RNorm(1, 4)), column),
             Without(RegionRow("galicia", R(200), RNorm(1, 4)), column)>> :
             r1 \in {"madrid", "galicia"},
             column \in {"Business_Asset_Ratio", "Financial_Asset_Ratio"} }

\* Households after the merge with the group statistics (line 417).
MergedRows ==
    { [Wealth_Rank           |-> rank,
       Total_Assets          |-> R(ta),
       Debt_Ratio            |-> dr,
       Real_Asset_Ratio      |-> RNorm(3, 5),
       Financial_Asset_Ratio |-> RNorm(3, 10)] :
      rank \in {2000, 4000, 8000, 9500}, ta \in {5000, 20000},
      dr \in {R(0), RNorm(1, 4)} }

InitRescale ==
    \/ /\ pc = "call"
       /\ \E multipliers \in MultiplierMaps : \E recompute \in BOOLEAN :
             args = [fn |-> "apply_region_multipliers", multipliers |-> multipliers,
                     recompute |-> recompute]
       /\ df \in RegionFrames
       /\ ret = None
    \/ /\ pc = "call"
       /\ args = [fn |-> "generate_and_adjust_households"]
       /\ \E row \in MergedRows : df = <<row>>
       /\ ret = None
    \/ InitPareto
    \/ /\ pc = "call"
       /\ args = [fn |-> "run_tax_simulation"]
       /\ \E row \in Individuals : df = <<row>>
       /\ ret = None

CallApplyRegionMultipliers ==
    /\ pc = "call"
    /\ args.fn = "apply_region_multipliers"
    /\ ret' = apply_region_multipliers(df, args.multipliers, args.recompute)
    /\ pc' = "done"
    /\ UNCHANGED <<args, df>>

CallNoiseAndFloor ==
    /\ pc = "call"
    /\ args.fn = "generate_and_adjust_households"
    /\ \E noise1 \in NoiseDraws : \E noise2 \in NoiseDraws : \E noise3 \in NoiseDraws :
          ret' = [status |-> "ok",
                  rows   |-> <<noise_and_floor(df[1], noise1, noise2, noise3)>>]
    /\ pc' = "done"
    /\ UNCHANGED <<args, df>>

NextRescale ==
    \/ CallApplyRegionMultipliers
    \/ CallNoiseAndFloor
    \/ CallInjectCalibratedParetoTail
    \/ CallRunTaxSimulation

SpecRescale == InitRescale /\ [][NextRescale]_vars

\* Net_Wealth = Total_Assets - Debts on a row, in the arithmetic of its
\* amounts (fixed point for the tax engine, rationals elsewhere).
NetWealthConsistent(row) ==
    IF args.fn = "run_tax_simulation"
    THEN row.Net_Wealth = Sub(row.Total_Assets, row.Debts)
    ELSE row.Net_Wealth = RSub(row.Total_Assets, row.Debts)

\* C13 as stated: after any of the four operations, apply_region_multipliers
\* with either value of recompute, every unit has
\* Net_Wealth = Total_Assets - Debts.
C13_NetWealthNeverStale ==
    (pc = "done" /\ ret.status = "ok") =>
        \A i \in 1..Len(ret.rows) : NetWealthConsistent(ret.rows[i])

\* C13, amended: after apply_region_multipliers with recompute = True, the
\* Pareto tail injection, the noise-and-floor step and run_tax_simulation,
\* every unit has Net_Wealth = Total_Assets - Debts; with recompute = False
\* apply_region_multipliers leaves Debts and Net_Wealth as they were.
C13_NetWealthRecomputed ==
    (pc = "done" /\ ret.status = "ok") =>
        IF args.fn = "apply_region_multipliers" /\ ~args.recompute
        THEN \A i \in 1..Len(ret.rows) :
                /\ ret.rows[i].Net_Wealth = df[i].Net_Wealth
                /\ ret.rows[i].Debts = df[i].Debts
        ELSE \A i \in 1..Len(ret.rows) : NetWealthConsistent(ret.rows[i])

\* A unit with debts whose region's multiplier is not 1, rescaled with
\* recompute = True.
C13_Witness ==
    /\ pc = "done"
    /\ args.fn = "apply_region_multipliers"
    /\ args.recompute
    /\ ret.status = "ok"
    /\ \E i \in 1..Len(ret.rows) :
          /\ ret.rows[i].Total_Assets # df[i].Total_Assets
          /\ ret.rows[i].Debts # R(0)
          /\ ret.rows[i].Net_Wealth # df[i].Net_Wealth

(***************************************************************************)
(* The generators behind the random stages.  assign_erosion (line 504),    *)
(* apply_migration_module (line 541) and run_tax_simulation (line 648)     *)
(* draw from the ambient generator np.random, which every caller shares;   *)
(* expand_households_to_individuals and inject_calibrated_pareto_tail      *)
(* build their own generator from their seed.  The ambient generator is    *)
(* args.stream, the variates it gives from its seeding on, and args.drawn, *)
(* how many of them it has given.  A variate is 0 when it falls below the  *)
(* unit's probability (whenever that is positive) and 1 when it does not.  *)
(***************************************************************************)
MaxVariates == 4

\* np.random.binomial(1, p) on one row
np_random_binomial(prob_positive, variate) ==
    IF prob_positive /\ variate = 0 THEN 1 ELSE 0

\* np.random.rand() < p on one row
np_random_rand_below(prob_positive, variate) == prob_positive /\ variate = 0

\* np.random.default_rng(seed).random(), n times: a function of the seed.
default_rng_random(seed, n) ==
    [k \in 1..n |-> Draws[1 + ((seed * k + seed + k) % Len(Draws))]]

\* How many variates one call of the stage takes from the ambient generator
\* for a frame of one row (run_tax_simulation: line 648, then line 504).
ambient_draws(fn) ==
    CASE fn = "assign_erosion"         -> 1
      [] fn = "apply_migration_module" -> 1
      [] fn = "run_tax_simulation"     -> 2
      [] OTHER                         -> 0

\* The units of one region, one income and one asset profile.
RandomUnits ==
    { u \in Individuals :
        u.Region = "galicia" /\ u.Income = Euros(1) /\ u.Business_Asset_Ratio = 10 }

\* Taxed units on either side of the migration thresholds.
TaxedUnits ==
    { [Wealth_Rank           |-> rank,
       Taxable_Wealth_Eroded |-> Euros(1000000 * k),
       Wealth_Tax            |-> Euros(5000 * k)] :
      rank \in RankValues, k \in 0..MaxAssetLevel }

\* Frames of MaxHouseholds whole households.
RandomHouseholdFrames ==
    { frame \in HouseholdFrames(600000) :
        Len(frame) = MaxHouseholds /\ frame[1].Weight = R(1) }

AmbientStreams == [1..MaxVariates -> {0, 1}]

InitRandom ==
    /\ pc = "call"
    /\ ret = None
    /\ \/ /\ \E u \in RandomUnits : df = <<adjusted_bases(u)>>
          /\ \E stream \in AmbientStreams :
                args = [fn |-> "assign_erosion", stream |-> stream, drawn |-> 0]
       \/ /\ \E u \in TaxedUnits : df = <<u>>
          /\ \E stream \in AmbientStreams :
                args = [fn |-> "apply_migration_module", stream |-> stream, drawn |-> 0]
       \/ /\ \E u \in RandomUnits : df = <<u>>
          /\ \E stream \in AmbientStreams :
                args = [fn |-> "run_tax_simulation", stream |-> stream, drawn |-> 0]
       \/ /\ df \in RandomHouseholdFrames
          /\ \E stream \in AmbientStreams : \E seed \in 0..MaxSeed :
                args = [fn |-> "expand_households_to_individuals", seed |-> seed,
                        stream |-> stream, drawn |-> 0]
       \/ /\ \E n \in {9, 10} : \E c \in 0..MaxDebtStep : df = ParetoFrame(n, 1, c, 1)
          /\ \E stream \in AmbientStreams : \E seed \in 0..MaxSeed :
                args = [fn |-> "inject_calibrated_pareto_tail", seed |-> seed,
                        stream |-> stream, drawn |-> 0]

\* A stage is invoked twice on the frame df: ret is the sequence of what the
\* invocations returned.
Recorded(out) == IF pc = "call" THEN <<out>> ELSE Append(ret, out)

Invoked ==
    /\ args' = [args EXCEPT !.drawn = @ + ambient_draws(args.fn)]
    /\ pc' = IF pc = "call" THEN "between" ELSE "done"
    /\ UNCHANGED df

InvokeAssignErosion ==
    /\ pc \in {"call", "between"}
    /\ args.fn = "assign_erosion"
    /\ ret' = Recorded(<<assign_erosion(df[1], 40,
                  np_random_binomial(Gt(df[1].Adj_Net_Wealth, Euros(2000000)),
                                     args.stream[args.drawn + 1]))>>)
    /\ Invoked

InvokeApplyMigrationModule ==
    /\ pc \in {"call", "between"}
    /\ args.fn = "apply_migration_module"
    /\ ret' = Recorded(<<apply_migration_module(df[1],
                  np_random_rand_below(Migration_Prob_Positive(df[1]),
                                       args.stream[args.drawn + 1]))>>)
    /\ Invoked

\* The first variate goes to `eligible` (line 648), the second to the
\* dropout draw of assign_erosion.
InvokeRunTaxSimulation ==
    /\ pc \in {"call", "between"}
    /\ args.fn = "run_tax_simulation"
    /\ ret' = Recorded(<<run_tax_simulation(df[1],
                  np_random_binomial(
                      Gt(adjusted_bases(df[1]).Adj_Net_Wealth, Euros(2000000)),
                      args.stream[args.drawn + 2]))>>)
    /\ Invoked

InvokeExpandHouseholdsToIndividuals ==
    /\ pc \in {"call", "between"}
    /\ args.fn = "expand_households_to_individuals"
    /\ ret' = Recorded(expand_households_to_individuals(df, 600000, <<7, 10>>,
                  default_rng_random(args.seed, 2 * Len(df))))
    /\ Invoked

InvokeInjectCalibratedParetoTail ==
    /\ pc \in {"call", "between"}
    /\ args.fn = "inject_calibrated_pareto_tail"
    /\ ret' = Recorded(inject_calibrated_pareto_tail(df, <<1, 5>>, <<1, 2>>, args.seed))
    /\ Invoked

\* Between the two invocations some other stage, or an earlier invocation of
\* any, takes a variate from the ambient generator.
OtherStageDraws ==
    /\ pc = "between"
    /\ args.drawn + 1 + ambient_draws(args.fn) <= MaxVariates
    /\ args' = [args EXCEPT !.drawn = @ + 1]
    /\ UNCHANGED <<pc, df, ret>>

NextRandom ==
    \/ InvokeAssignErosion
    \/ InvokeApplyMigrationModule
    \/ InvokeRunTaxSimulation
    \/ InvokeExpandHouseholdsToIndividuals
    \/ InvokeInjectCalibratedParetoTail
    \/ OtherStageDraws

SpecRandom == InitRandom /\ [][NextRandom]_vars

\* C14: two invocations of the same stage on identical inputs (and seed)
\* return identical outputs, whatever draws were made in between.
C14_StagesDeterministic ==
    pc = "done" => ret[1] = ret[2]

(***************************************************************************)
(* scale_final_weights_by_taxpayer_counts.  A row is [Region, Is_Taxpayer, *)
(* Final_Weight], the weight a rational; region_targets_quota is a         *)
(* function from some region names to their target counts.                 *)
(***************************************************************************)
\* The spellings of a region a frame may carry.
RegionSpellings == {"madrid", "Madrid ", " galicia", "galicia", "asturias"}

\* .str.strip().str.lower() on those spellings
str_strip_lower(region) ==
    CASE region = "Madrid "  -> "madrid"
      [] region = " galicia" -> "galicia"
      [] OTHER               -> region

\* mask = (df["Region"] == region) & (df["Is_Taxpayer"] == 1), the Region
\* column being the normalised one.
regional_declarants(rows, region) ==
    { i \in 1..Len(rows) : str_strip_lower(rows[i].Region) = region /\ rows[i].Is_Taxpayer }

\* regional_declarants["Final_Weight"].sum()
total_weight(rows, region) ==
    RSum(Array([i \in 1..Len(rows) |->
                   IF i \in regional_declarants(rows, region)
                   THEN rows[i].Final_Weight ELSE R(0)], Len(rows)))

\* The two tests that end an iteration with `continue`.
skipped_only_when_empty(rows, region) == regional_declarants(rows, region) = {}

skipped(rows, region) ==
    \/ regional_declarants(rows, region) = {}
    \/ total_weight(rows, region) = R(0)

\* scaling_factor = target_count / total_weight
scaling_factor_undivided(target_count, total) == target_count

scaling_factor(target_count, total) == RDiv(target_count, total)

scale_final_weights_by_taxpayer_counts(rows, region_targets_quota) ==
    Array([i \in 1..Len(rows) |->
        LET region == str_strip_lower(rows[i].Region)
        IN  [Region       |-> region,
             Is_Taxpayer  |-> rows[i].Is_Taxpayer,
             Final_Weight |->
                 IF /\ region \in DOMAIN region_targets_quota
                    /\ rows[i].Is_Taxpayer
                    /\ ~skipped(rows, region)
                 THEN RMul(rows[i].Final_Weight,
                           scaling_factor(region_targets_quota[region],
                                          total_weight(rows, region)))
                 ELSE rows[i].Final_Weight]], Len(rows))

MaxFinalWeight == 2
MaxTarget == 1

TargetCounts == { R(4 * t) : t \in 0..MaxTarget }

TargetMaps ==
    UNION { [regions -> TargetCounts] : regions \in SUBSET {"madrid", "galicia"} }

WeightRow(region, is_taxpayer, weight) ==
    [Region |-> region, Is_Taxpayer |-> is_taxpayer, Final_Weight |-> R(weight)]

WeightFrames ==
    { <<WeightRow(r1, t1, w1), WeightRow(r2, t2, w2), WeightRow("Madrid ", TRUE, w3)>> :
        r1 \in RegionSpellings, t1 \in BOOLEAN, w1 \in 0..MaxFinalWeight,
        r2 \in {"madrid", " galicia"}, t2 \in BOOLEAN, w2 \in 0..MaxFinalWeight,
        w3 \in 0..1 }

InitWeights ==
    /\ pc = "call"
    /\ df \in WeightFrames
    /\ \E region_targets_quota \in TargetMaps :
          args = [fn |-> "scale_final_weights_by_taxpayer_counts",
                  region_targets_quota |-> region_targets_quota]
    /\ ret = None

CallScaleFinalWeightsByTaxpayerCounts ==
    /\ pc = "call"
    /\ ret' = [status |-> "ok",
               rows   |-> scale_final_weights_by_taxpayer_counts(
                              df, args.region_targets_quota)]
    /\ pc' = "done"
    /\ UNCHANGED <<args, df>>

NextWeights == CallScaleFinalWeightsByTaxpayerCounts

SpecWeights == InitWeights /\ [][NextWeights]_vars

\* The sum of Final_Weight over the taxpayers of a region in a frame.
TaxpayerWeight(rows, region) ==
    RSum(Array([i \in 1..Len(rows) |->
                   IF str_strip_lower(rows[i].Region) = region /\ rows[i].Is_Taxpayer
                   THEN rows[i].Final_Weight ELSE R(0)], Len(rows)))

\* C15: for every region of the target map with positive simulated taxpayer
\* weight, the returned weights of the region's taxpayers sum to its target;
\* the weights of non-taxpayers and of units whose region is not in the map
\* are unchanged.
C15_TaxpayerWeightsMatchTargets ==
    pc = "done" =>
        /\ \A region \in DOMAIN args.region_targets_quota :
              RLt(R(0), TaxpayerWeight(df, region)) =>
                 TaxpayerWeight(ret.rows, region) = args.region_targets_quota[region]
        /\ \A i \in 1..Len(df) :
              (\/ ~df[i].Is_Taxpayer
               \/ str_strip_lower(df[i].Region) \notin DOMAIN args.region_targets_quota) =>
                 ret.rows[i].Final_Weight = df[i].Final_Weight

\* Two madrid taxpayers of different positive weights rescaled to a target
\* their weights did not sum to, next to a madrid non-taxpayer.
C15_Witness ==
    /\ pc = "done"
    /\ "madrid" \in DOMAIN args.region_targets_quota
    /\ args.region_targets_quota["madrid"] # R(0)
    /\ TaxpayerWeight(df, "madrid") # args.region_targets_quota["madrid"]
    /\ \E i \in 1..Len(df) : \E j \in 1..Len(df) :
          /\ i \in regional_declarants(df, "madrid")
          /\ j \in regional_declarants(df, "madrid")
          /\ RLt(R(0), df[i].Final_Weight)
          /\ RLt(df[i].Final_Weight, df[j].Final_Weight)
          /\ ret.rows[i].Final_Weight # df[i].Final_Weight
    /\ \E k \in 1..Len(df) :
          /\ str_strip_lower(df[k].Region) = "madrid"
          /\ ~df[k].Is_Taxpayer
          /\ RLt(R(0), df[k].Final_Weight)

\* C16: a region with a non-zero target whose simulated taxpayers are none,
\* or weigh 0 in total, raises no error and keeps every weight of its units,
\* while the other regions of the map with positive taxpayer weight are still
\* rescaled to their targets.
C16_EmptyRegionSkipped ==
    pc = "done" =>
        /\ ret.status = "ok"
        /\ \A region \in DOMAIN args.region_targets_quota :
              (/\ args.region_targets_quota[region] # R(0)
               /\ TaxpayerWeight(df, region) = R(0)) =>
                 /\ \A i \in 1..Len(df) :
                       str_strip_lower(df[i].Region) = region =>
                           ret.rows[i].Final_Weight = df[i].Final_Weight
                 /\ \A other \in DOMAIN args.region_targets_quota \ {region} :
                       RLt(R(0), TaxpayerWeight(df, other)) =>
                           TaxpayerWeight(ret.rows, other) =
                               args.region_targets_quota[other]

\* galicia has a non-zero target and a taxpayer, of weight 0; madrid is
\* rescaled next to it.
C16_Witness ==
    /\ pc = "done"
    /\ DOMAIN args.region_targets_quota = {"madrid", "galicia"}
    /\ args.region_targets_quota["galicia"] # R(0)
    /\ regional_declarants(df, "galicia") # {}
    /\ TaxpayerWeight(df, "galicia") = R(0)
    /\ \E i \in regional_declarants(df, "madrid") :
          ret.rows[i].Final_Weight # df[i].Final_Weight

(***************************************************************************)
(* generate_and_adjust_households, lines 393-414: the wealth bands.        *)
(* Wealth_Rank is held in 1/10000.                                         *)
(***************************************************************************)
\* pd.cut(wealth_ranks, bins=[0, 0.25, 0.50, 0.75, 0.9, 1.0], labels=...,
\* include_lowest=True).astype(str): the bins are closed on the right (right
\* is left at its default) and the first one takes its lower edge too; a
\* value outside them becomes "nan".
pd_cut(rank) ==
    IF rank < 0 \/ rank > 10000 THEN "nan"
    ELSE IF rank <= 2500 THEN "under 25"
    ELSE IF rank <= 5000 THEN "between 25 and 50"
    ELSE IF rank <= 7500 THEN "between 50 and 75"
    ELSE IF rank <= 9000 THEN "between 75 and 90"
    ELSE "between 90 and 100"

MaxPercent == 100

\* Ranks at, just below and just above every whole percent.
BandRanks == { r \in { 100 * k + o : k \in 0..MaxPercent, o \in {0 - 1, 0, 1} } : r >= 0 }

\* rng.uniform(0.95, 1.0)
ForcedRanks == {9500, 9999}

InitBands ==
    /\ pc = "call"
    /\ args = [fn |-> "generate_and_adjust_households"]
    /\ \E rank \in BandRanks : df = <<[Wealth_Rank |-> rank]>>
    /\ ret = None

\* The base frame, and the households of each region that are sampled and
\* forced into the top band.
CallAssignCategories ==
    /\ pc = "call"
    /\ \/ ret' = [status |-> "ok", sampled |-> FALSE,
                  rows |-> <<[Wealth_Rank |-> df[1].Wealth_Rank,
                              Category    |-> pd_cut(df[1].Wealth_Rank)]>>]
       \/ \E rank \in ForcedRanks :
             ret' = [status |-> "ok", sampled |-> TRUE,
                     rows |-> <<[Wealth_Rank |-> rank,
                                 Category    |-> "between 90 and 100"]>>]
    /\ pc' = "done"
    /\ UNCHANGED <<args, df>>

NextBands == CallAssignCategories

SpecBands == InitBands /\ [][NextBands]_vars

\* The band of a rank when every band takes its lower edge and leaves its
\* upper one to the next: [0,25), [25,50), [50,75), [75,90), [90,100].
LowerInclusiveBand(rank) ==
    IF rank < 2500 THEN "under 25"
    ELSE IF rank < 5000 THEN "between 25 and 50"
    ELSE IF rank < 7500 THEN "between 50 and 75"
    ELSE IF rank < 9000 THEN "between 75 and 90"
    ELSE "between 90 and 100"

\* C17: a household's band is the one whose half-open, lower-inclusive range
\* holds its rank; a rank of exactly 25, 50, 75 or 90 percent is in the band
\* that starts there.
C17_BandsLowerInclusive ==
    pc = "done" =>
        \A i \in 1..Len(ret.rows) :
            ret.rows[i].Wealth_Rank \in 0..10000 =>
                ret.rows[i].Category = LowerInclusiveBand(ret.rows[i].Wealth_Rank)

(***************************************************************************)
(* generate_scaled_households on inputs that are absent or not normalised. *)
(* The region-share table has ShareRegions rows.                           *)
(***************************************************************************)
ShareRegions == 3

\* Line 229 is the first use of region_weights_df (None has no copy()), line
\* 232 the first of simulated_population (None / 1.6).
generate_scaled_households_on(inputs, shares) ==
    IF ~inputs.has_region_weights
    THEN [status |-> "AttributeError", Num_Households |-> <<>>, rows |-> 0]
    ELSE IF ~inputs.has_simulated_population
    THEN [status |-> "TypeError", Num_Households |-> <<>>, rows |-> 0]
    ELSE generate_scaled_households(shares, inputs.simulated_population)

InitShares ==
    /\ pc = "call"
    /\ df \in [1..ShareRegions -> 0..ShareDen]
    /\ \E population \in 0..MaxPopulation : \E has_weights \in BOOLEAN :
         \E has_population \in BOOLEAN :
            args = [fn |-> "generate_scaled_households",
                    has_region_weights |-> has_weights,
                    has_simulated_population |-> has_population,
                    simulated_population |-> IF has_population THEN population ELSE 0]
    /\ ret = None

CallGenerateScaledHouseholdsOn ==
    /\ pc = "call"
    /\ ret' = generate_scaled_households_on(args, df)
    /\ pc' = "done"
    /\ UNCHANGED <<args, df>>

NextShares == CallGenerateScaledHouseholdsOn

SpecShares == InitShares /\ [][NextShares]_vars

\* C18: when the region shares do not sum to 1, or an input is absent, the
\* function fails with an error and produces no households.
C18_FailsOnBadInput ==
    pc = "done" =>
        ((\/ ~args.has_region_weights
          \/ ~args.has_simulated_population
          \/ SumSeq(df) # ShareDen) =>
            ret.status # "ok" /\ ret.rows = 0)

(***************************************************************************)
(* main: the try block, its handler and the report written after them.     *)
(* pc is the call main is about to make.  df holds main's summary_rows and *)
(* the regions the loop has still to summarise; a summary row is kept as   *)
(* its region.  ret holds what the run leaves behind: the calls that       *)
(* returned, the exception raised, the files written.                      *)
(***************************************************************************)
\* The calls of the try block in order; "summary_rows" is the assignment of
\* line 1075, "to_csv" the writing of the per-unit table.
stages ==
    <<"calculate_population_over_30", "load_eff_data", "process_eff_assets_income",
      "load_population_and_revenue_data", "generate_scaled_households",
      "generate_and_adjust_households", "inject_calibrated_pareto_tail",
      "run_tax_simulation", "assign_erosion", "apply_migration_module",
      "calculate_ip_tax", "apply_baseline_behavioral_erosion", "summary_rows",
      "generate_region_summary", "generate_tax_diagnostics",
      "compute_global_inequality_stats", "to_csv", "compare_to_observed">>

position(stage) == CHOOSE k \in 1..Len(stages) : stages[k] = stage

\* Where control goes when a call of the try block returns.
next_stage(stage) ==
    IF position(stage) = Len(stages) THEN "write_report"
    ELSE stages[position(stage) + 1]

\* What a failing stage raises: a missing file, a bad value, a missing
\* column, a failed assert.
Exceptions == {"FileNotFoundError", "ValueError", "KeyError", "AssertionError"}

\* except Exception as e
except_ValueError(exception) == exception = "ValueError"

except_Exception(exception) == exception \in Exceptions

\* taxed_individuals["Region"].unique(): some of the regions, each once.
RECURSIVE Subsequences(_)
Subsequences(s) ==
    IF s = <<>> THEN {<<>>}
    ELSE LET rest == Subsequences(Tail(s))
         IN  rest \cup { <<Head(s)>> \o t : t \in rest }

Returned(stage, region) == [stage |-> stage, region |-> region]

InitMain ==
    /\ pc = stages[1]
    /\ \E regions \in Subsequences(Regions) \ {<<>>} :
          args = [fn |-> "main", regions |-> regions]
    /\ df = [summary_rows |-> <<>>, todo |-> <<>>]
    /\ ret = [log |-> <<>>, raised |-> "none", failed |-> "none", caught |-> FALSE,
              files |-> {}, report |-> <<>>]

\* A call of the try block returns.
StageReturns ==
    /\ pc \in { stages[k] : k \in 1..Len(stages) }
               \ {"summary_rows", "generate_region_summary", "to_csv"}
    /\ ret' = [ret EXCEPT !.log = Append(@, Returned(pc, ""))]
    /\ pc' = next_stage(pc)
    /\ UNCHANGED <<args, df>>

\* A call of the try block raises: the handler takes it if its class matches,
\* otherwise it leaves main.
StageRaises ==
    /\ pc \in { stages[k] : k \in 1..Len(stages) } \ {"summary_rows"}
    /\ \E exception \in Exceptions :
          /\ ret' = [ret EXCEPT !.raised = exception, !.failed = pc]
          /\ pc' = IF except_Exception(exception) THEN "except" ELSE "done"
    /\ UNCHANGED <<args, df>>

\* summary_rows = [] (line 1075) and the start of the loop over the regions.
ResetSummaryRows ==
    /\ pc = "summary_rows"
    /\ df' = [summary_rows |-> <<>>, todo |-> args.regions]
    /\ pc' = "generate_region_summary"
    /\ UNCHANGED <<args, ret>>

\* One turn of the loop: summary_rows.append(generate_region_summary(...)).
GenerateRegionSummary ==
    /\ pc = "generate_region_summary"
    /\ df.todo # <<>>
    /\ df' = [summary_rows |-> Append(df.summary_rows, [Region |-> Head(df.todo)]),
              todo         |-> Tail(df.todo)]
    /\ ret' = [ret EXCEPT !.log = Append(@, Returned(pc, Head(df.todo)))]
    /\ pc' = IF Tail(df.todo) = <<>> THEN next_stage(pc) ELSE pc
    /\ UNCHANGED args

\* taxed_individuals.to_csv("simulated_thesis.csv", index=False)
WriteOutputTable ==
    /\ pc = "to_csv"
    /\ ret' = [ret EXCEPT !.log = Append(@, Returned(pc, "")),
                          !.files = @ \cup {"simulated_thesis.csv"}]
    /\ pc' = next_stage(pc)
    /\ UNCHANGED <<args, df>>

\* The handler: logging.exception and a print.
CatchException ==
    /\ pc = "except"
    /\ ret' = [ret EXCEPT !.caught = TRUE]
    /\ pc' = "write_report"
    /\ UNCHANGED <<args, df>>

\* pd.DataFrame(summary_rows).to_csv("region_policy_comparison_summary.csv")
WriteSummaryReport ==
    /\ pc = "write_report"
    /\ ret' = [ret EXCEPT !.files = @ \cup {"region_policy_comparison_summary.csv"},
                          !.report = df.summary_rows]
    /\ pc' = "done"
    /\ UNCHANGED <<args, df>>

NextMain ==
    \/ StageReturns
    \/ StageRaises
    \/ ResetSummaryRows
    \/ GenerateRegionSummary
    \/ WriteOutputTable
    \/ CatchException
    \/ WriteSummaryReport

\* main runs to its end: the interpreter always takes the next step.
SpecMain == InitMain /\ [][NextMain]_vars /\ WF_vars(NextMain)

\* The summary rows the run produced: one for every call of
\* generate_region_summary that returned, in the order of the calls.
RECURSIVE SummariesIn(_)
SummariesIn(log) ==
    IF log = <<>> THEN <<>>
    ELSE IF Head(log).stage = "generate_region_summary"
    THEN <<[Region |-> Head(log).region]>> \o SummariesIn(Tail(log))
    ELSE SummariesIn(Tail(log))

\* The stages of the log, each named once.
StagesIn(log) == { log[k].stage : k \in 1..Len(log) }

\* C20: whichever stage raises, the handler catches it and the run goes on to
\* write the region summary report, holding exactly the summary rows produced
\* before the failure; every run, failing or not, ends with the report
\* written; the per-unit table is written only when every stage before it has
\* returned.
C20_ReportWrittenOnEveryRun ==
    /\ [](pc = "done" =>
             /\ "region_policy_comparison_summary.csv" \in ret.files
             /\ ret.report = SummariesIn(ret.log)
             /\ ret.failed # "none" => ret.caught)
    /\ []("simulated_thesis.csv" \in ret.files =>
             /\ \A k \in 1..(position("to_csv") - 1) :
                   stages[k] # "summary_rows" => stages[k] \in StagesIn(ret.log)
             /\ SummariesIn(ret.log) = [k \in 1..Len(args.regions) |->
                                           [Region |-> args.regions[k]]]
             /\ ret.failed \in {"none", "compare_to_observed"})
    /\ <>(pc = "done" /\ "region_policy_comparison_summary.csv" \in ret.files)

\* A run whose summary loop failed part-way: the report holds the rows of the
\* regions summarised before the failure, some region is left out, and the
\* per-unit table was not written.
C20_Witness ==
    /\ pc = "done"
    /\ ret.failed = "generate_region_summary"
    /\ ret.caught
    /\ Len(ret.report) >= 1
    /\ Len(ret.report) < Len(args.regions)
    /\ "region_policy_comparison_summary.csv" \in ret.files
    /\ "simulated_thesis.csv" \notin ret.files

\* The first place of a call in the log, 0 when the run never made it.
FirstIn(log, stage) ==
    IF stage \in StagesIn(log)
    THEN CHOOSE k \in 1..Len(log) :
             /\ log[k].stage = stage
             /\ \A j \in 1..(k - 1) : log[j].stage # stage
    ELSE 0

\* stage a returned, and stage b returned after it.
RanBefore(log, a, b) == 0 < FirstIn(log, a) /\ FirstIn(log, a) < FirstIn(log, b)

\* C21: every run that writes the per-unit table has executed every component,
\* in the order of the flow: the expander (inside
\* generate_and_adjust_households), then the percentile-share reweighting and
\* the Pareto tail injection, then the tax engine; and the behavioural step,
\* then the taxpayer-count weight rescaling, then the output table and the
\* revenue comparison.
C21_ComponentsRunInOrder ==
    pc = "done" /\ ret.failed = "none" =>
        /\ RanBefore(ret.log, "generate_and_adjust_households",
                     "reweight_to_match_percentile_shares")
        /\ RanBefore(ret.log, "reweight_to_match_percentile_shares", "run_tax_simulation")
        /\ RanBefore(ret.log, "generate_and_adjust_households",
                     "inject_calibrated_pareto_tail")
        /\ RanBefore(ret.log, "inject_calibrated_pareto_tail", "run_tax_simulation")
        /\ RanBefore(ret.log, "apply_baseline_behavioral_erosion",
                     "scale_final_weights_by_taxpayer_counts")
        /\ RanBefore(ret.log, "scale_final_weights_by_taxpayer_counts", "to_csv")
        /\ RanBefore(ret.log, "to_csv", "compare_to_observed")

(***************************************************************************)
(* main: the weight columns, from the expansion of the households (line     *)
(* 453, inside generate_and_adjust_households) to the aggregates.  df is    *)
(* the household frame as line 450 leaves it, which has no Weight column;   *)
(* ret.rows is main's `individuals`.  The only assignment to Final_Weight   *)
(* that main reaches is line 1027; the aggregates weigh every unit by it    *)
(* (lines 554, 713, 839, 891, 1095).                                        *)
(***************************************************************************)
\* individuals["Final_Weight"] = 1.0
assign_final_weight(row) ==
    [f \in DOMAIN row \cup {"Final_Weight"} |->
        IF f = "Final_Weight" THEN R(1) ELSE row[f]]

\* (df[value] * df["Final_Weight"]).sum(), and the sum of the weights.
weighted_sum(rows, value) ==
    RSum(Array([p \in 1..Len(rows) |-> RMul(rows[p][value], rows[p].Final_Weight)],
               Len(rows)))

InitAggregates ==
    /\ pc = "expand_households_to_individuals"
    /\ \E frame \in HouseholdFrames(1000000) :
         \E random \in RandomStreams(2 * Len(frame)) :
            /\ df = Array([i \in 1..Len(frame) |-> Without(frame[i], "Weight")],
                          Len(frame))
            /\ args = [fn |-> "main", base_threshold |-> 1000000,
                       split_prob |-> <<7, 10>>, random |-> random]
    /\ ret = None

\* df_individuals = expand_households_to_individuals(df, base_threshold=1_000_000)
ExpandHouseholds ==
    /\ pc = "expand_households_to_individuals"
    /\ ret' = [status |-> "running",
               rows   |-> expand_households_to_individuals(
                              df, args.base_threshold, args.split_prob, args.random)]
    /\ pc' = "Final_Weight"
    /\ UNCHANGED <<args, df>>

AssignFinalWeight ==
    /\ pc = "Final_Weight"
    /\ ret' = [ret EXCEPT !.rows = Array([p \in 1..Len(ret.rows) |->
                                             assign_final_weight(ret.rows[p])],
                                         Len(ret.rows))]
    /\ pc' = "aggregates"
    /\ UNCHANGED <<args, df>>

\* The weighted totals of the diagnostics and of the inequality statistics.
ComputeAggregates ==
    /\ pc = "aggregates"
    /\ ret' = [status       |-> "ok",
               rows         |-> ret.rows,
               Total_Weight |-> RSum(Array([p \in 1..Len(ret.rows) |->
                                               ret.rows[p].Final_Weight], Len(ret.rows))),
               Total_Income |-> weighted_sum(ret.rows, "Income")]
    /\ pc' = "done"
    /\ UNCHANGED <<args, df>>

NextAggregates == ExpandHouseholds \/ AssignFinalWeight \/ ComputeAggregates

SpecAggregates == InitAggregates /\ [][NextAggregates]_vars

\* C24: in the frame the aggregates are computed from, the Final_Weight of the
\* units of every household sums to the household's weight (1.0, the weight
\* the expander gives a household that comes without one), and is the
\* fractional Weight the expander produced.
C24_FinalWeightsSumToHousehold ==
    pc = "done" =>
        \A i \in 1..Len(df) :
            /\ SumOver("Final_Weight", UnitsOf(i)) = default_columns(df[i]).Weight
            /\ \A p \in UnitsOf(i) : ret.rows[p].Final_Weight = ret.rows[p].Weight

(***************************************************************************)
(* The steps that lower the wealth tax, on units of any income: main from   *)
(* run_tax_simulation to the output table, started on the units of          *)
(* Individuals and on the same units with an income of zero or below        *)
(* (Income is drawn from a normal distribution at line 447), and            *)
(* apply_tax_cap_and_adjustments called on its own.                         *)
(***************************************************************************)
NonPositiveIncomes == { Euros(0), Euros(0 - 40000) }

\* The designated region and one region of each personal exemption.
BoundedRegions == {"madrid", "catalonia", "asturias"}

UnitsOfAnyIncome ==
    LET units == { row \in Individuals : row.Region \in BoundedRegions }
    IN  units \cup
        { [row EXCEPT !.Income = income] : row \in units, income \in NonPositiveIncomes }

InitBounded ==
    \/ /\ pc = "run_tax_simulation"
       /\ args = [fn |-> "main"]
       /\ \E row \in UnitsOfAnyIncome : df = <<row>>
       /\ ret = None
    \/ /\ pc = "call"
       /\ args = [fn |-> "apply_tax_cap_and_adjustments"]
       /\ \E row \in CapRows : df = <<row>>
       /\ ret = None

NextBounded == Next \/ CallApplyTaxCap

SpecBounded == InitBounded /\ [][NextBounded]_vars

\* 0 <= Wealth_Tax <= the bracket tax of the un-eroded base, same table.
WithinBaselineTax(row) ==
    /\ Le(Zero, row.Wealth_Tax)
    /\ Le(row.Wealth_Tax, calculate_ip_tax(row.Taxable_Wealth, row.Region))

\* C25: from the return of run_tax_simulation to the row written to the output
\* table (which is the frame's row at that point), through
\* the designated-region override and the migration exit, every unit has
\* 0 <= Wealth_Tax <= bracket tax of its un-eroded taxable wealth; and the
\* joint cap, in run_tax_simulation and in apply_tax_cap_and_adjustments,
\* leaves a wealth tax that is not above the one it was given and not below 0,
\* whatever the sign of the income.
C25_WealthTaxBounded ==
    /\ args.fn = "main" /\ pc # "run_tax_simulation" =>
          /\ Le(Zero, df[1].Taxable_Wealth)
          /\ WithinBaselineTax(df[1])
    /\ args.fn = "main" /\ pc = "madrid_override" =>
          Le(df[1].Wealth_Tax, PreCapWealthTax(df[1]))
    /\ args.fn = "apply_tax_cap_and_adjustments" /\ pc = "done" =>
          /\ Le(Zero, ret.rows[1].Wealth_Tax)
          /\ Le(ret.rows[1].Wealth_Tax, df[1].Wealth_Tax)

\* A unit with a negative income and a positive bracket tax, just out of
\* run_tax_simulation: the cap (negative too) took the tax down to the 20%
\* floor.
C25_Witness ==
    /\ args.fn = "main"
    /\ pc = "madrid_override"
    /\ IsNeg(df[1].Income)
    /\ IsNeg(df[1].Cap)
    /\ LET before == PreCapWealthTax(df[1])
       IN  /\ Gt(before, Zero)
           /\ df[1].Wealth_Tax = TimesPct(before, 20)

=============================================================================
